---- MODULE Spec2Model ----
(***************************************************************************)
(* CVector: the vector log, the key index, the HNSW index and the engine   *)
(* facade (create/open/close, insert, get, delete, search), as a state     *)
(* machine.  Floats are modelled in fixed point, SCALE units per 1.0.      *)
(***************************************************************************)
EXTENDS Integers, Sequences, FiniteSets, TLC

--------------------------------------------------------------------------
(* Program constants *)

CVECTOR_SUCCESS == 0
CVECTOR_ERROR_INVALID_ARGS == -1
CVECTOR_ERROR_OUT_OF_MEMORY == -2
CVECTOR_ERROR_FILE_IO == -3
CVECTOR_ERROR_DB_NOT_FOUND == -4
CVECTOR_ERROR_VECTOR_NOT_FOUND == -5
CVECTOR_ERROR_DIMENSION_MISMATCH == -6
CVECTOR_ERROR_DB_CORRUPT == -7

CVECTOR_SIMILARITY_COSINE == 0
CVECTOR_SIMILARITY_DOT_PRODUCT == 1
CVECTOR_SIMILARITY_EUCLIDEAN == 2

CVECTOR_MAGIC_NUMBER == 1129727299
CVECTOR_FILE_VERSION == 1
CVECTOR_HASH_TABLE_SIZE == 10007
HASH_FIND_MAX_ITERATIONS == 1000
SEARCH_MAX_TOP_K == 10000
CVECTOR_MAX_DIMENSION == 4096

HNSW_DEFAULT_M == 16
HNSW_DEFAULT_EF_CONSTRUCTION == 200
HNSW_MAX_LEVEL == 16
SIMPLE_CONNECT_MAX_NODES == 5
\* (uint32_t)-1, "no node"; only ever compared for equality
UINT32_MAX == -1
\* stands for the largest size_t, what a decrement of 0 wraps to
SIZE_MAX == 2147483647

\* sizeof(cvector_file_header_t), sizeof(cvector_vector_record_t), sizeof(float)
SIZEOF_FILE_HEADER == 80
SIZEOF_VECTOR_RECORD == 32
SIZEOF_FLOAT == 4

\* the null pointer (a record, so that it compares with node and entry records)
NULL == [null |-> TRUE]

\* the null pointer to floats (a sequence, so that it compares with vector data)
NULL_VECTOR == << >>

--------------------------------------------------------------------------
(* Bounds of the model *)

\* configured dimension of the store
Dimension == 2
\* the log holds at most this many records (insert is not called beyond it)
MaxRecords == 2
\* hnsw_random_level draws a level in 0..MaxDrawnLevel
MaxDrawnLevel == 1
\* slots of the HNSW index on its own
MaxNodes == 6
\* top_k of a valid query ranges over 1..MaxTopK
MaxTopK == 2
\* read holds of the search lock that are counted
MaxReadHolds == 1
\* fixed point: units per 1.0
SCALE == 1000

--------------------------------------------------------------------------
(* Inputs *)

\* vector ids offered to insert/get/delete
Ids == {0, 1, 2}

\* the first two components of the vectors stored and of the vectors queried;
\* the rest is zero
BaseData == {<<3, 0>>, <<0, 1>>}
BaseQueryData == {<<1, 0>>, <<0, 1>>}

PadTo(v, d) == [i \in 1..d |-> IF i <= Len(v) THEN v[i] ELSE 0]

\* vector data of dimension d
DataOfDim(d) == {PadTo(v, d) : v \in BaseData}
QueryDataOfDim(d) == {PadTo(v, d) : v \in BaseQueryData}

\* the metrics a store is created with, and the metrics queried
StoreMetrics == {CVECTOR_SIMILARITY_COSINE, CVECTOR_SIMILARITY_EUCLIDEAN}
QueryMetrics == {CVECTOR_SIMILARITY_COSINE, CVECTOR_SIMILARITY_EUCLIDEAN}

Metrics == {CVECTOR_SIMILARITY_COSINE, CVECTOR_SIMILARITY_DOT_PRODUCT,
            CVECTOR_SIMILARITY_EUCLIDEAN}

Levels == 0..MaxDrawnLevel

Min(a, b) == IF a < b THEN a ELSE b

--------------------------------------------------------------------------
(* Similarity kernel (fixed point) *)

RECURSIVE SumTo(_, _)
SumTo(f, n) == IF n = 0 THEN 0 ELSE f[n] + SumTo(f, n - 1)

RECURSIVE SqrtSearch(_, _, _)
SqrtSearch(n, lo, hi) ==
    IF lo >= hi THEN lo
    ELSE LET mid == (lo + hi + 1) \div 2
         IN  IF mid * mid <= n THEN SqrtSearch(n, mid, hi)
                               ELSE SqrtSearch(n, lo, mid - 1)

\* floor of the square root (46340 is the largest root of a 32-bit integer)
sqrtf(n) == SqrtSearch(n, 0, Min(n, 46340))

\* <a,b> / (|a| |b|), 0 when a norm is (nearly) zero
cvector_cosine_similarity(a, b, dimension) ==
    LET dot_product == SumTo([i \in 1..dimension |-> a[i] * b[i]], dimension)
        norm_a2 == SumTo([i \in 1..dimension |-> a[i] * a[i]], dimension)
        norm_b2 == SumTo([i \in 1..dimension |-> b[i] * b[i]], dimension)
        mag == sqrtf((dot_product * dot_product * SCALE * SCALE) \div (norm_a2 * norm_b2))
    IN  IF dimension = 0 THEN 0
        ELSE IF norm_a2 = 0 \/ norm_b2 = 0 THEN 0
        ELSE IF dot_product < 0 THEN 0 - mag ELSE mag

cvector_dot_product(a, b, dimension) ==
    IF dimension = 0 THEN 0
    ELSE SCALE * SumTo([i \in 1..dimension |-> a[i] * b[i]], dimension)

\* sqrt(sum (a-b)^2), a distance
cvector_euclidean_distance(a, b, dimension) ==
    IF dimension = 0 THEN 0
    ELSE sqrtf(SCALE * SCALE *
               SumTo([i \in 1..dimension |-> (a[i] - b[i]) * (a[i] - b[i])], dimension))

\* the similarity the full scan computes, by metric; default: 0
SimilarityByMetric(a, b, dimension, similarity_type) ==
    CASE similarity_type = CVECTOR_SIMILARITY_COSINE ->
             cvector_cosine_similarity(a, b, dimension)
      [] similarity_type = CVECTOR_SIMILARITY_DOT_PRODUCT ->
             cvector_dot_product(a, b, dimension)
      [] similarity_type = CVECTOR_SIMILARITY_EUCLIDEAN ->
             0 - cvector_euclidean_distance(a, b, dimension)
      [] OTHER -> 0

\* the scores of the vectors offered, computed once
SimilarityTable ==
    [t \in Metrics |->
        [a \in DataOfDim(Dimension) \cup QueryDataOfDim(Dimension) |->
            [b \in DataOfDim(Dimension) |-> SimilarityByMetric(a, b, Dimension, t)]]]

\* the score HNSW ranks by: higher is better (euclidean distance is negated)
hnsw_calculate_similarity(a, b, dimension, similarity_type) ==
    SimilarityTable[similarity_type][a][b]

--------------------------------------------------------------------------
(* Bounded priority queue: a binary heap in an array.  items[i+1] is the   *)
(* C array slot i; count is Len(items).                                    *)

hnsw_pq_create(capacity, is_max_heap) ==
    [items |-> << >>, capacity |-> capacity, is_max_heap |-> is_max_heap]

SwapItems(items, i, j) ==
    [items EXCEPT ![i] = items[j], ![j] = items[i]]

RECURSIVE hnsw_heap_up(_, _, _)
hnsw_heap_up(items, is_max_heap, idx) ==
    IF idx = 0 THEN items
    ELSE LET parent == (idx - 1) \div 2
             should_swap ==
                 IF is_max_heap
                 THEN items[idx + 1].distance > items[parent + 1].distance
                 ELSE items[idx + 1].distance < items[parent + 1].distance
         IN  IF should_swap
             THEN hnsw_heap_up(SwapItems(items, idx + 1, parent + 1), is_max_heap, parent)
             ELSE items

RECURSIVE hnsw_heap_down(_, _, _)
hnsw_heap_down(items, is_max_heap, idx) ==
    LET count == Len(items)
        left == 2 * idx + 1
        right == 2 * idx + 2
        Better(i, j) == IF is_max_heap
                        THEN items[i + 1].distance > items[j + 1].distance
                        ELSE items[i + 1].distance < items[j + 1].distance
        e1 == IF left < count /\ Better(left, idx) THEN left ELSE idx
        extreme == IF right < count /\ Better(right, e1) THEN right ELSE e1
    IN  IF extreme # idx
        THEN hnsw_heap_down(SwapItems(items, idx + 1, extreme + 1), is_max_heap, extreme)
        ELSE items

\* a push on a full queue fails and leaves the queue as it was
hnsw_pq_push(pq, node_id, distance) ==
    IF Len(pq.items) >= pq.capacity THEN pq
    ELSE [pq EXCEPT !.items =
             hnsw_heap_up(Append(pq.items, [node_id |-> node_id, distance |-> distance]),
                          pq.is_max_heap, Len(pq.items))]

\* the queue after a pop of a non-empty queue (the popped item is items[1])
hnsw_pq_pop(pq) ==
    LET count == Len(pq.items) - 1
    IN  IF count > 0
        THEN [pq EXCEPT !.items =
                 hnsw_heap_down([i \in 1..count |-> IF i = 1 THEN pq.items[count + 1]
                                                             ELSE pq.items[i]],
                                pq.is_max_heap, 0)]
        ELSE [pq EXCEPT !.items = << >>]

hnsw_pq_is_empty(pq) == Len(pq.items) = 0

--------------------------------------------------------------------------
(* HNSW index.  nodes is the node array, a function on 0..node_count-1     *)
(* whose value is a node or NULL (a slot vacated by a remove); a node is   *)
(* [id, level, vector_data, connections], connections[l] the neighbor      *)
(* indices at level l, for l in 0..level.                                  *)

hnsw_create_index(dimension, similarity_type) ==
    [nodes |-> << >>, node_count |-> 0,
     M |-> HNSW_DEFAULT_M, ef_construction |-> HNSW_DEFAULT_EF_CONSTRUCTION,
     dimension |-> dimension, similarity_type |-> similarity_type,
     entry_point |-> UINT32_MAX, max_level |-> 0]

\* connection_count[level] is 0 above the node's level (calloc)
ConnectionsAt(node, level) ==
    IF level <= node.level THEN node.connections[level] ELSE << >>

MaxConnections(M, level) == IF level = 0 THEN M * 2 ELSE M

\* the push of a neighbor on w, and the pop that follows when w grew past
\* num_closest
PopIfOver(w, num_closest) ==
    IF Len(w.items) > num_closest THEN hnsw_pq_pop(w) ELSE w

\* the body of the for loop for a neighbor not visited before, scored neighbor_dist
ExamineNeighbor(st, neighbor_id, neighbor_dist, furthest_in_w, num_closest) ==
    IF neighbor_dist > furthest_in_w \/ Len(st.w.items) < num_closest
    THEN [visited |-> st.visited \cup {neighbor_id},
          candidates |-> hnsw_pq_push(st.candidates, neighbor_id, neighbor_dist),
          w |-> PopIfOver(hnsw_pq_push(st.w, neighbor_id, neighbor_dist), num_closest)]
    ELSE [st EXCEPT !.visited = @ \cup {neighbor_id}]

\* neighbors out of range, vacated or visited are passed over
SkipNeighbor(index, st, neighbor_id) ==
    \/ neighbor_id >= index.node_count
    \/ index.nodes[neighbor_id] = NULL
    \/ neighbor_id \in st.visited

\* the for loop over the neighbors conns[i..] of a popped candidate
RECURSIVE ExamineNeighbors(_, _, _, _, _, _, _)
ExamineNeighbors(index, query_vector, st, conns, i, furthest_in_w, num_closest) ==
    IF i > Len(conns) THEN st
    ELSE ExamineNeighbors(index, query_vector,
             IF SkipNeighbor(index, st, conns[i]) THEN st
             ELSE ExamineNeighbor(st, conns[i],
                      hnsw_calculate_similarity(query_vector,
                          index.nodes[conns[i]].vector_data,
                          index.dimension, index.similarity_type),
                      furthest_in_w, num_closest),
             conns, i + 1, furthest_in_w, num_closest)

\* the while loop over the candidates
RECURSIVE SearchLayerLoop(_, _, _, _, _)
RECURSIVE SearchLayerStep(_, _, _, _, _, _)
\* one round of the loop: current was popped, popped is the state after the pop;
\* furthest_in_w is -FLT_MAX when w is empty
SearchLayerStep(index, query_vector, current, popped, num_closest, level) ==
    IF Len(popped.w.items) = 0 \/ current.distance > popped.w.items[1].distance
    THEN popped
    ELSE SearchLayerLoop(index, query_vector,
             ExamineNeighbors(index, query_vector, popped,
                 ConnectionsAt(index.nodes[current.node_id], level), 1,
                 popped.w.items[1].distance, num_closest),
             num_closest, level)

SearchLayerLoop(index, query_vector, st, num_closest, level) ==
    IF hnsw_pq_is_empty(st.candidates) THEN st
    ELSE SearchLayerStep(index, query_vector, st.candidates.items[1],
             [st EXCEPT !.candidates = hnsw_pq_pop(st.candidates)],
             num_closest, level)

\* an entry point is pushed on candidates and on w with its score recomputed
SeedQueue(index, st, node_id, distance) ==
    [visited |-> IF node_id < index.node_count
                 THEN st.visited \cup {node_id} ELSE st.visited,
     candidates |-> hnsw_pq_push(st.candidates, node_id, distance),
     w |-> hnsw_pq_push(st.w, node_id, distance)]

\* entry points are copied to candidates and w with their scores recomputed
RECURSIVE SeedQueues(_, _, _, _, _)
SeedQueues(index, query_vector, items, i, st) ==
    IF i > Len(items) THEN st
    ELSE SeedQueues(index, query_vector, items, i + 1,
             SeedQueue(index, st, items[i].node_id,
                 hnsw_calculate_similarity(query_vector,
                     index.nodes[items[i].node_id].vector_data,
                     index.dimension, index.similarity_type)))

\* w is popped into entry_points until w is empty or entry_points is full
RECURSIVE CopyResultsBack(_, _)
CopyResultsBack(w, entry_points) ==
    IF hnsw_pq_is_empty(w) \/ Len(entry_points.items) >= entry_points.capacity
    THEN entry_points
    ELSE CopyResultsBack(hnsw_pq_pop(w),
             hnsw_pq_push(entry_points, w.items[1].node_id, w.items[1].distance))

\* the entry_points queue after the search of one layer
hnsw_search_layer(index, query_vector, entry_points, num_closest, level) ==
    CopyResultsBack(
        SearchLayerLoop(index, query_vector,
            SeedQueues(index, query_vector, entry_points.items, 1,
                [visited |-> {},
                 candidates |-> hnsw_pq_create(index.ef_construction, FALSE),
                 w |-> hnsw_pq_create(index.ef_construction, TRUE)]),
            num_closest, level).w,
        [entry_points EXCEPT !.items = << >>])

\* search_layer with num_closest = 1 at levels from, from-1, ..., downto+1
RECURSIVE DescendLevels(_, _, _, _, _)
DescendLevels(index, query_vector, entry_points, from, downto) ==
    IF from <= downto THEN entry_points
    ELSE DescendLevels(index, query_vector,
             hnsw_search_layer(index, query_vector, entry_points, 1, from),
             from - 1, downto)

RECURSIVE SortInner(_, _, _)
SortInner(t, i, j) ==
    IF j > Len(t) THEN t
    ELSE SortInner(IF t[j].similarity > t[i].similarity THEN SwapItems(t, i, j) ELSE t,
                   i, j + 1)

\* results left in the order they were extracted
SortResultsSkipped(t, i) == t

\* the exchange sort of the results, descending by similarity
RECURSIVE SortResultsDescending(_, _)
SortResultsDescending(t, i) ==
    IF i >= Len(t) THEN t
    ELSE SortResultsDescending(SortInner(t, i, i + 1), i + 1)

\* result_count items popped from entry_points, as (id, similarity) pairs
RECURSIVE ExtractResults(_, _, _, _)
ExtractResults(index, entry_points, result_count, acc) ==
    IF Len(acc) >= result_count THEN acc
    ELSE ExtractResults(index, hnsw_pq_pop(entry_points), result_count,
             Append(acc, [id |-> index.nodes[entry_points.items[1].node_id].id,
                          similarity |-> entry_points.items[1].distance]))

\* how many of the gathered candidates are returned
ResultCount(count, top_k) == IF count < top_k THEN count ELSE top_k

\* the results built from the queue the level-0 search left: result_count items
\* are popped, then sorted
ResultsOf(index, entry_points, top_k) ==
    SortResultsDescending(
        ExtractResults(index, entry_points,
            ResultCount(Len(entry_points.items), top_k), << >>), 1)

\* the queue a search starts with: the entry point and its score
EntryQueue(index, query_vector, ef) ==
    hnsw_pq_push(hnsw_pq_create(ef, FALSE), index.entry_point,
        hnsw_calculate_similarity(query_vector,
            index.nodes[index.entry_point].vector_data,
            index.dimension, index.similarity_type))

\* the queue the search at level 0 leaves, after the walk down the levels above
\* it: the candidates of the search
LevelZeroBeam(index, query_vector, ef) ==
    hnsw_search_layer(index, query_vector,
        DescendLevels(index, query_vector, EntryQueue(index, query_vector, ef),
                      index.max_level, 0),
        ef, 0)

\* [err, results]: results is the sequence of (id, similarity) returned
hnsw_search_with_ef(index, query_vector, top_k, ef) ==
    IF top_k = 0
    THEN [err |-> CVECTOR_ERROR_INVALID_ARGS, results |-> << >>]
    ELSE IF index.node_count = 0 \/ index.entry_point = UINT32_MAX
    THEN [err |-> CVECTOR_SUCCESS, results |-> << >>]
    ELSE [err |-> CVECTOR_SUCCESS,
          results |-> ResultsOf(index, LevelZeroBeam(index, query_vector, ef), top_k)]

--------------------------------------------------------------------------
(* HNSW add *)

AppendConnection(index, from, level, to) ==
    [index EXCEPT !.nodes[from].connections[level] = Append(@, to)]

\* the small-graph path: bidirectional edges to node i at levels 0..common_level
RECURSIVE ConnectCommonLevels(_, _, _, _, _)
ConnectCommonLevels(index, node_id, i, level, common_level) ==
    IF level > common_level THEN index
    ELSE
      LET max_conn == MaxConnections(index.M, level)
          a == IF Len(index.nodes[node_id].connections[level]) < max_conn
               THEN AppendConnection(index, node_id, level, i) ELSE index
          b == IF Len(a.nodes[i].connections[level]) < max_conn
               THEN AppendConnection(a, i, level, node_id) ELSE a
      IN  ConnectCommonLevels(b, node_id, i, level + 1, common_level)

RECURSIVE ConnectToAllExisting(_, _, _)
ConnectToAllExisting(index, node_id, i) ==
    IF i >= node_id THEN index
    ELSE IF index.nodes[i] = NULL THEN ConnectToAllExisting(index, node_id, i + 1)
    ELSE ConnectToAllExisting(
             ConnectCommonLevels(index, node_id, i, 0,
                 Min(index.nodes[node_id].level, index.nodes[i].level)),
             node_id, i + 1)

\* [index, candidates, fault] after the selection loop; fault: a reverse edge
\* was written through the NULL connections[level] of a lower-level neighbor
RECURSIVE SelectLoop(_, _, _, _, _, _, _)
SelectLoop(index, node_id, candidates, M, level, selected, fault) ==
    LET max_connections == MaxConnections(M, level)
        conns == index.nodes[node_id].connections[level]
    IN
    IF hnsw_pq_is_empty(candidates) \/ selected >= M \/ Len(conns) >= max_connections
    THEN [index |-> index, candidates |-> candidates, fault |-> fault]
    ELSE
      LET neighbor_id == candidates.items[1].node_id
          rest == hnsw_pq_pop(candidates)
          skip == \/ neighbor_id = node_id
                  \/ neighbor_id >= index.node_count
                  \/ index.nodes[neighbor_id] = NULL
                  \/ \E k \in 1..Len(conns) : conns[k] = neighbor_id
          forward == AppendConnection(index, node_id, level, neighbor_id)
          neighbor == index.nodes[neighbor_id]
          nconns == ConnectionsAt(neighbor, level)
          reverse_wanted == /\ Len(nconns) < max_connections
                            /\ ~ \E k \in 1..Len(nconns) : nconns[k] = node_id
          both == IF reverse_wanted /\ level <= neighbor.level
                  THEN AppendConnection(forward, neighbor_id, level, node_id)
                  ELSE forward
      IN  IF skip
          THEN SelectLoop(index, node_id, rest, M, level, selected, fault)
          ELSE SelectLoop(both, node_id, rest, M, level, selected + 1,
                          fault \/ (reverse_wanted /\ level > neighbor.level))

hnsw_select_neighbors_simple(index, node_id, candidates, M, level) ==
    SelectLoop(index, node_id, candidates, M, level, 0, FALSE)

\* search and connect at levels level, level-1, ..., 0
RECURSIVE ConnectLevelsDown(_, _, _, _, _)
RECURSIVE ConnectNextLevel(_, _, _)
\* sel is what the selection at this level left: on to the level below
ConnectNextLevel(sel, node_id, level) ==
    ConnectLevelsDown(sel.index, node_id, sel.candidates, level - 1, sel.fault)

ConnectLevelsDown(index, node_id, entry_points, level, fault) ==
    IF level < 0 THEN [index |-> index, fault |-> fault]
    ELSE ConnectNextLevel(
             hnsw_select_neighbors_simple(index, node_id,
                 hnsw_search_layer(index, index.nodes[node_id].vector_data,
                     entry_points,
                     IF level = 0 THEN index.ef_construction ELSE index.M, level),
                 index.M, level),
             node_id, level)

\* the queue the descent starts from: the entry point, if there is one
StartQueue(index, q) ==
    IF index.entry_point # UINT32_MAX /\ index.nodes[index.entry_point] # NULL
    THEN hnsw_pq_push(hnsw_pq_create(index.ef_construction, FALSE), index.entry_point,
             hnsw_calculate_similarity(q, index.nodes[index.entry_point].vector_data,
                 index.dimension, index.similarity_type))
    ELSE hnsw_pq_create(index.ef_construction, FALSE)

\* [index, fault] after the new node node_id was connected; max_level is its level
hnsw_connect_layers_safe(index, node_id, max_level) ==
    IF index.node_count <= SIMPLE_CONNECT_MAX_NODES
    THEN [index |-> ConnectToAllExisting(index, node_id, 0), fault |-> FALSE]
    ELSE ConnectLevelsDown(index, node_id,
             DescendLevels(index, index.nodes[node_id].vector_data,
                 StartQueue(index, index.nodes[node_id].vector_data),
                 index.max_level, max_level),
             max_level, FALSE)

NewNode(id, vector, level) ==
    [id |-> id, level |-> level, vector_data |-> vector,
     connections |-> [l \in 0..level |-> << >>]]

\* an add that never moves the entry point
UpdateEntryPointSkipped(index, node_id, level) == index

\* the entry point moves to a new node of a higher level
UpdateEntryPoint(index, node_id, level) ==
    IF level > index.max_level
    THEN [index EXCEPT !.entry_point = node_id, !.max_level = level]
    ELSE index

\* the index with the new node in slot node_count
PlaceNode(index, id, vector, level) ==
    [index EXCEPT
        !.nodes = [i \in 0..index.node_count |->
                      IF i < index.node_count THEN index.nodes[i]
                      ELSE NewNode(id, vector, level)],
        !.node_count = index.node_count + 1]

\* the result of an add whose node was connected
Added(connected, node_id, level) ==
    [err |-> CVECTOR_SUCCESS,
     index |-> UpdateEntryPoint(connected.index, node_id, level),
     fault |-> connected.fault]

\* [err, index, fault]; level is the level hnsw_random_level drew
hnsw_add_vector(index, id, vector, level) ==
    IF index.entry_point = UINT32_MAX
    THEN [err |-> CVECTOR_SUCCESS,
          index |-> [PlaceNode(index, id, vector, level) EXCEPT
                         !.entry_point = index.node_count, !.max_level = level],
          fault |-> FALSE]
    ELSE Added(hnsw_connect_layers_safe(PlaceNode(index, id, vector, level),
                   index.node_count, level),
               index.node_count, level)

\* hnsw_add_vector when the allocation of the node fails: the index is as it was
hnsw_add_vector_nomem(index) ==
    [err |-> CVECTOR_ERROR_OUT_OF_MEMORY, index |-> index, fault |-> FALSE]

\* the large-graph connect that stops when the search at fail_level fails:
\* [index, fault] as the levels above fail_level left them
RECURSIVE ConnectLevelsUntil(_, _, _, _, _, _)
ConnectLevelsUntil(index, node_id, entry_points, level, fail_level, fault) ==
    IF level <= fail_level THEN [index |-> index, fault |-> fault]
    ELSE
      LET sel == hnsw_select_neighbors_simple(index, node_id,
                     hnsw_search_layer(index, index.nodes[node_id].vector_data,
                         entry_points, index.M, level),
                     index.M, level)
      IN  ConnectLevelsUntil(sel.index, node_id, sel.candidates, level - 1,
                             fail_level, sel.fault)

\* hnsw_add_vector when hnsw_connect_layers_safe fails at fail_level: the node
\* is freed, node_count is decremented and the slot is cleared
hnsw_add_vector_connect_failed(index, id, vector, level, fail_level) ==
    LET placed == PlaceNode(index, id, vector, level)
        partial == ConnectLevelsUntil(placed, index.node_count,
                       DescendLevels(placed, vector, StartQueue(placed, vector),
                           placed.max_level, level),
                       level, fail_level, FALSE)
    IN  [err |-> CVECTOR_ERROR_OUT_OF_MEMORY,
         index |-> [partial.index EXCEPT
                       !.nodes = [i \in 0..(index.node_count - 1) |->
                                     partial.index.nodes[i]],
                       !.node_count = index.node_count],
         fault |-> partial.fault]

\* hnsw_search_with_ef when the allocation of its queue fails
hnsw_search_nomem == [err |-> CVECTOR_ERROR_OUT_OF_MEMORY, results |-> << >>]

--------------------------------------------------------------------------
(* HNSW remove *)

\* the first slot holding a node with this id, UINT32_MAX when there is none
FindNodeById(index, id) ==
    LET hits == {i \in 0..(index.node_count - 1) :
                    index.nodes[i] # NULL /\ index.nodes[i].id = id}
    IN  IF hits = {} THEN UINT32_MAX
        ELSE CHOOSE i \in hits : \A j \in hits : i <= j

\* every edge to the removed slot is dropped from the other nodes
RemoveEdgesTo(index, node_to_remove) ==
    [i \in 0..(index.node_count - 1) |->
        IF i = node_to_remove \/ index.nodes[i] = NULL THEN index.nodes[i]
        ELSE [index.nodes[i] EXCEPT !.connections =
                 [l \in 0..index.nodes[i].level |->
                     SelectSeq(index.nodes[i].connections[l],
                               LAMBDA n : n # node_to_remove)]]]

\* the scan that elects a new entry point: (entry_point, max_level) after slots 0..i-1
RECURSIVE ElectEntryPoint(_, _, _, _)
ElectEntryPoint(nodes, node_count, i, acc) ==
    IF i >= node_count THEN acc
    ELSE ElectEntryPoint(nodes, node_count, i + 1,
             IF nodes[i] # NULL /\ nodes[i].level >= acc.max_level
             THEN [entry_point |-> i, max_level |-> nodes[i].level]
             ELSE acc)

\* a removal that reports success and leaves the node in the graph
hnsw_remove_vector_skipped(index, id) == [err |-> CVECTOR_SUCCESS, index |-> index]

\* [err, index]
hnsw_remove_vector(index, id) ==
    LET node_to_remove == FindNodeById(index, id)
        cleaned == RemoveEdgesTo(index, node_to_remove)
        nodes1 == [cleaned EXCEPT ![node_to_remove] = NULL]
        elected == ElectEntryPoint(nodes1, index.node_count, 0,
                       [entry_point |-> UINT32_MAX, max_level |-> 0])
    IN  IF node_to_remove = UINT32_MAX
        THEN [err |-> CVECTOR_ERROR_VECTOR_NOT_FOUND, index |-> index]
        ELSE [err |-> CVECTOR_SUCCESS,
              index |-> IF index.entry_point = node_to_remove
                        THEN [index EXCEPT !.nodes = nodes1,
                                           !.entry_point = elected.entry_point,
                                           !.max_level = elected.max_level]
                        ELSE [index EXCEPT !.nodes = nodes1]]

--------------------------------------------------------------------------
(* State *)

VARIABLES
    data_file,      \* the log file: [header, records]
    is_open,        \* the handle returned by create/open has not been closed
    config,         \* [dimension, default_similarity]
    next_id,
    vector_count,   \* the live-count
    hash_table,     \* the key index: bucket -> chain of entries, head first
    hnsw_index,
    file_pos,       \* the position of the file handle, followed where calls
                    \* interleave between a seek and the read or write after it;
                    \* a call made as a whole seeks before each of its reads and
                    \* writes and leaves nothing that depends on the position
    mutex,          \* the mutation mutex: [initialized, owner]
    search_lock,    \* the search read-write lock: [initialized, readers]
    pc,             \* per thread: where its call stands
    call,           \* per thread: the arguments and locals of its call
    last,           \* the call that returned last, with what it returned
    inserted,       \* history: id -> data of its last successful insert,
                    \* NoData after a successful delete
    deleted,        \* history: id -> a delete of it succeeded and no insert since
    reinserted,     \* history: id -> its last successful insert came after a
                    \* successful delete of it, and no delete succeeded since
    succeeded       \* history: how many inserts and deletes returned success

storeVars == <<data_file, config, next_id, vector_count, hash_table, hnsw_index,
               file_pos>>
lockVars == <<mutex, search_lock>>
threadVars == <<pc, call>>
historyVars == <<inserted, deleted, reinserted, succeeded>>
vars == <<data_file, is_open, config, next_id, vector_count, hash_table, hnsw_index,
          file_pos, mutex, search_lock, pc, call, last, inserted, deleted, reinserted,
          succeeded>>

Threads == {1, 2}
NoThread == 0
NoData == << >>

--------------------------------------------------------------------------
(* Vector log and key index *)

cvector_hash(id) == id % CVECTOR_HASH_TABLE_SIZE

\* the buckets the offered ids fall in, in ascending order; all others stay empty
Buckets == {cvector_hash(id) : id \in Ids}

cvector_init_hash_table == [b \in Buckets |-> << >>]

\* the new entry becomes the head of its chain
cvector_hash_insert(table, id, file_offset, dimension) ==
    [table EXCEPT ![cvector_hash(id)] =
        <<[id |-> id, file_offset |-> file_offset, dimension |-> dimension,
           is_deleted |-> FALSE]>> \o @]

\* position in the chain of the first live entry with this id among the first
\* max_iterations entries from position i; 0 when there is none
FindInChain(chain, i, id, max_iterations) ==
    LET visited == i..Min(Len(chain), i + max_iterations - 1)
        hits == {j \in visited : chain[j].id = id /\ ~ chain[j].is_deleted}
    IN  IF hits = {} THEN 0 ELSE CHOOSE j \in hits : \A k \in hits : j <= k

\* 0 stands for the NULL result
cvector_hash_find(table, id) ==
    FindInChain(table[cvector_hash(id)], 1, id, HASH_FIND_MAX_ITERATIONS)

\* a record whose write was cut short holds the bytes its bytes field says
Torn(record) == "bytes" \in DOMAIN record

RecordSize(record) ==
    IF Torn(record) THEN record.bytes
    ELSE SIZEOF_VECTOR_RECORD + record.dimension * SIZEOF_FLOAT

\* byte offset of the start of record i (i = Len + 1: the end of the file)
RECURSIVE RecordOffset(_, _)
RecordOffset(records, i) ==
    IF i <= 1 THEN SIZEOF_FILE_HEADER
    ELSE RecordOffset(records, i - 1) + RecordSize(records[i - 1])

\* fseek(SEEK_END); ftell
EndOfFile(file) == RecordOffset(file.records, Len(file.records) + 1)

\* the record that starts at this offset; 0 when no record starts there
RecordAt(file, offset) ==
    LET hits == {i \in 1..Len(file.records) : RecordOffset(file.records, i) = offset}
    IN  IF hits = {} THEN 0 ELSE CHOOSE i \in hits : TRUE

FileHeader(dimension, default_similarity, count, next) ==
    [magic |-> CVECTOR_MAGIC_NUMBER, version |-> CVECTOR_FILE_VERSION,
     dimension |-> dimension, default_similarity |-> default_similarity,
     vector_count |-> count, next_id |-> next]

cvector_write_header(file) ==
    [file EXCEPT !.header =
        FileHeader(config.dimension, config.default_similarity, vector_count, next_id)]

\* the fwrite of the record header and of the vector data at the end of the file
AppendRecord(file, vector) ==
    [file EXCEPT !.records =
        Append(@, [id |-> vector.id, dimension |-> vector.dimension,
                   is_deleted |-> 0, data |-> vector.data])]

\* a delete that writes no tombstone
WriteTombstoneSkipped(file, file_offset) == file

\* the fwrite of the tombstone byte of the record that starts at file_offset
WriteTombstone(file, file_offset) ==
    LET i == RecordAt(file, file_offset)
    IN  IF i = 0 THEN file ELSE [file EXCEPT !.records[i].is_deleted = 1]

--------------------------------------------------------------------------
(* Engine facade: what each call computes from the current state *)

\* an insert that does not look for the id in the key index
InsertValidationDimensionOnly(vector) ==
    IF vector.dimension # config.dimension THEN CVECTOR_ERROR_DIMENSION_MISMATCH
    ELSE CVECTOR_SUCCESS

\* the code insert returns before it changes anything, CVECTOR_SUCCESS if none
InsertValidation(vector) ==
    IF vector.dimension # config.dimension THEN CVECTOR_ERROR_DIMENSION_MISMATCH
    ELSE IF cvector_hash_find(hash_table, vector.id) # 0 THEN CVECTOR_ERROR_INVALID_ARGS
    ELSE CVECTOR_SUCCESS

\* an insert that records the offset of the first record of the file
InsertOffsetFirst(file) == SIZEOF_FILE_HEADER

\* offset recorded for a new record: the end of the file before the write
InsertOffset(file) == EndOfFile(file)

NextIdAfter(id) == IF id >= next_id THEN id + 1 ELSE next_id

\* the vector of the record read, unless the record is a tombstone
ReadRecord(record) ==
    IF record.is_deleted # 0
    THEN [rc |-> CVECTOR_ERROR_VECTOR_NOT_FOUND, vector |-> NULL]
    ELSE [rc |-> CVECTOR_SUCCESS,
          vector |-> [id |-> record.id, dimension |-> record.dimension,
                      data |-> record.data]]

\* the seek to the file offset of a key-index entry and the read of record r
\* there; r = 0: there is no record to read at that offset
ReadEntry(r) ==
    IF r = 0 THEN [rc |-> CVECTOR_ERROR_FILE_IO, vector |-> NULL]
    ELSE ReadRecord(data_file.records[r])

\* [rc, vector]: cvector_get
cvector_get(id) ==
    IF id = 0 THEN [rc |-> CVECTOR_ERROR_INVALID_ARGS, vector |-> NULL]
    ELSE IF cvector_hash_find(hash_table, id) = 0
    THEN [rc |-> CVECTOR_ERROR_VECTOR_NOT_FOUND, vector |-> NULL]
    ELSE ReadEntry(RecordAt(data_file,
             hash_table[cvector_hash(id)][cvector_hash_find(hash_table, id)].file_offset))

\* stats: total_vectors is the live-count
cvector_db_stats ==
    [rc |-> CVECTOR_SUCCESS, total_vectors |-> vector_count,
     dimension |-> config.dimension, default_similarity |-> config.default_similarity,
     total_size_bytes |-> EndOfFile(data_file)]

\* a copy of the HNSW results that applies no threshold
ConvertResultsUnfiltered(results, i, min_similarity, top_k, acc) ==
    SubSeq(results, 1, Min(top_k, Len(results)))

\* the loop that copies the HNSW results, applying the similarity threshold
RECURSIVE ConvertResults(_, _, _, _, _)
ConvertResults(results, i, min_similarity, top_k, acc) ==
    IF i > Len(results) \/ Len(acc) >= top_k THEN acc
    ELSE ConvertResults(results, i + 1, min_similarity, top_k,
             IF min_similarity = 0 \/ results[i].similarity >= min_similarity
             THEN Append(acc, results[i]) ELSE acc)

\* the similarity the full scan computes, by the metric of the query
QuerySimilarity(query, data) ==
    SimilarityTable[query.similarity][query.query_vector][data]

RECURSIVE SortedSeq(_)
SortedSeq(S) ==
    IF S = {} THEN << >>
    ELSE LET m == CHOOSE x \in S : \A y \in S : x <= y
         IN  <<m>> \o SortedSeq(S \ {m})

\* the result list after one entry of the full scan, got being what cvector_get
\* returned for it and similarity its score
ScanEntry(entry, got, similarity, query, acc) ==
    IF /\ ~ entry.is_deleted
       /\ got.rc = CVECTOR_SUCCESS
       /\ (query.min_similarity = 0 \/ similarity >= query.min_similarity)
    THEN Append(acc, [id |-> entry.id, similarity |-> similarity])
    ELSE acc

\* the score of a vector cvector_get returned; 0 stands for the score not computed
ScoreOf(query, got) ==
    IF got.rc = CVECTOR_SUCCESS THEN QuerySimilarity(query, got.vector.data) ELSE 0

ScanGot(entry, got, query, acc) == ScanEntry(entry, got, ScoreOf(query, got), query, acc)

\* the full scan over one chain, from entry i, until max_results were gathered
RECURSIVE ScanChain(_, _, _, _, _)
ScanChain(chain, i, query, max_results, acc) ==
    IF i > Len(chain) \/ Len(acc) >= max_results THEN acc
    ELSE ScanChain(chain, i + 1, query, max_results,
             ScanGot(chain[i], cvector_get(chain[i].id), query, acc))

\* the full scan over the buckets, in index order
RECURSIVE ScanBuckets(_, _, _, _, _)
ScanBuckets(order, b, query, max_results, acc) ==
    IF b > Len(order) \/ Len(acc) >= max_results THEN acc
    ELSE ScanBuckets(order, b + 1, query, max_results,
             ScanChain(hash_table[order[b]], 1, query, max_results, acc))

RECURSIVE BubblePass(_, _, _)
BubblePass(t, j, last_j) ==
    IF j > last_j THEN t
    ELSE BubblePass(IF t[j].similarity < t[j + 1].similarity
                    THEN SwapItems(t, j, j + 1) ELSE t,
                    j + 1, last_j)

\* the bubble sort of the full scan, descending by similarity
RECURSIVE BubbleSortDescending(_, _)
BubbleSortDescending(t, i) ==
    IF i >= Len(t) THEN t
    ELSE BubbleSortDescending(BubblePass(t, 1, Len(t) - i), i + 1)

\* the sort and the copy of at most top_k of the vectors the full scan gathered
SortFound(found, top_k) ==
    IF Len(found) > 1
    THEN SubSeq(BubbleSortDescending(found, 1), 1, Min(Len(found), top_k))
    ELSE found

BruteForceSearch(query) ==
    SortFound(ScanBuckets(SortedSeq(Buckets), 1, query, Min(query.top_k, vector_count),
                          << >>),
              query.top_k)

\* the code search returns before it takes the lock, CVECTOR_SUCCESS if none
\* a validation without the check of min_similarity
SearchValidationNoThreshold(query) ==
    IF query.query_vector = NULL_VECTOR \/ query.dimension # config.dimension
    THEN CVECTOR_ERROR_INVALID_ARGS
    ELSE IF query.top_k = 0 \/ query.top_k > SEARCH_MAX_TOP_K
    THEN CVECTOR_ERROR_INVALID_ARGS
    ELSE CVECTOR_SUCCESS

SearchValidation(query) ==
    IF query.query_vector = NULL_VECTOR \/ query.dimension # config.dimension
    THEN CVECTOR_ERROR_INVALID_ARGS
    ELSE IF query.top_k = 0 \/ query.top_k > SEARCH_MAX_TOP_K
    THEN CVECTOR_ERROR_INVALID_ARGS
    ELSE IF query.min_similarity < 0 - SCALE \/ query.min_similarity > SCALE
    THEN CVECTOR_ERROR_INVALID_ARGS
    ELSE CVECTOR_SUCCESS

\* the return of a search that took the read lock, hnsw_result being what the
\* HNSW search gave
SearchLocked(query, hnsw_result) ==
    IF hnsw_result.err = CVECTOR_SUCCESS /\ Len(hnsw_result.results) > 0
    THEN [rc |-> CVECTOR_SUCCESS,
          results |-> ConvertResults(hnsw_result.results, 1,
                          query.min_similarity, query.top_k, << >>),
          locked |-> TRUE, unlocked |-> FALSE]
    ELSE [rc |-> CVECTOR_SUCCESS, results |-> BruteForceSearch(query),
          locked |-> TRUE, unlocked |-> TRUE]

\* a search that reports an empty store as a missing vector
cvector_search_empty_is_error(query, hnsw_result) ==
    IF SearchValidation(query) # CVECTOR_SUCCESS
    THEN [rc |-> SearchValidation(query), results |-> << >>,
          locked |-> FALSE, unlocked |-> FALSE]
    ELSE IF vector_count = 0
    THEN [rc |-> CVECTOR_ERROR_VECTOR_NOT_FOUND, results |-> << >>,
          locked |-> TRUE, unlocked |-> FALSE]
    ELSE SearchLocked(query, hnsw_result)

\* [rc, results, locked, unlocked]: locked, the read lock was acquired;
\* unlocked, it was released before the return.  hnsw_result is what
\* hnsw_search_with_ef returns if it is called.
cvector_search_with(query, hnsw_result) ==
    IF SearchValidation(query) # CVECTOR_SUCCESS
    THEN [rc |-> SearchValidation(query), results |-> << >>,
          locked |-> FALSE, unlocked |-> FALSE]
    ELSE IF vector_count = 0
    THEN [rc |-> CVECTOR_SUCCESS, results |-> << >>,
          locked |-> TRUE, unlocked |-> FALSE]
    ELSE SearchLocked(query, hnsw_result)

cvector_search(query) ==
    cvector_search_with(query,
        hnsw_search_with_ef(hnsw_index, query.query_vector,
                            query.top_k, query.top_k * 2))

--------------------------------------------------------------------------
(* Calls made one at a time: each action is one whole call *)

AllIdle == \A t \in Threads : pc[t] = "idle"

InsertedVectors ==
    {[id |-> id, dimension |-> d, data |-> data] :
        id \in Ids, d \in {Dimension}, data \in DataOfDim(Dimension)}
    \cup
    {[id |-> id, dimension |-> Dimension + 1, data |-> PadTo(<<1, 0>>, Dimension + 1)] :
        id \in Ids}

\* without a threshold, and cosine queries that ask for a similarity of 1.0
Queries ==
    [query_vector : QueryDataOfDim(Dimension), dimension : {Dimension},
     top_k : 1..MaxTopK, similarity : QueryMetrics, min_similarity : {0}]
    \cup
    [query_vector : QueryDataOfDim(Dimension), dimension : {Dimension},
     top_k : {MaxTopK}, similarity : {CVECTOR_SIMILARITY_COSINE},
     min_similarity : {SCALE}]

\* a delete that leaves the live-count as it was
SizeDecrementSkipped(n) == n

SizeDecrement(n) == IF n = 0 THEN SIZE_MAX ELSE n - 1

\* the writes of an insert, added being what hnsw_add_vector returned
InsertWrites(vector, added) ==
    /\ ~ added.fault
    /\ data_file' = AppendRecord(data_file, vector)
    /\ hash_table' = cvector_hash_insert(hash_table, vector.id, InsertOffset(data_file),
                                         vector.dimension)
    /\ hnsw_index' = added.index

\* insert between the lock and the unlock of the mutex, for a vector that passed
\* the validation; added is what hnsw_add_vector returned
InsertLocked(vector, added) ==
    /\ InsertWrites(vector, added)
    /\ vector_count' = vector_count + 1
    /\ next_id' = NextIdAfter(vector.id)
    /\ UNCHANGED <<config, file_pos>>

\* delete between the lock and the unlock of the mutex, for an id found at
\* position pos of its chain
DeleteLocked(id, pos) ==
    LET entry == hash_table[cvector_hash(id)][pos]
    IN  /\ hash_table' = [hash_table EXCEPT ![cvector_hash(id)][pos].is_deleted = TRUE]
        /\ hnsw_index' = hnsw_remove_vector(hnsw_index, id).index
        /\ data_file' = WriteTombstone(data_file, entry.file_offset)
        /\ vector_count' = SizeDecrement(vector_count)
        /\ UNCHANGED <<config, next_id, file_pos>>

\* the code delete returns without a change, CVECTOR_SUCCESS if none
DeleteValidation(id) ==
    IF id = 0 THEN CVECTOR_ERROR_INVALID_ARGS
    ELSE IF cvector_hash_find(hash_table, id) = 0 THEN CVECTOR_ERROR_VECTOR_NOT_FOUND
    ELSE CVECTOR_SUCCESS

\* cvector_insert, added being what hnsw_add_vector returns if it is called; an
\* error of hnsw_add_vector is printed and the insert goes on
InsertWith(vector, added) ==
    /\ is_open /\ AllIdle
    /\ LET rc == InsertValidation(vector)
       IN  /\ last' = IF rc = CVECTOR_SUCCESS
                      THEN [op |-> "insert", rc |-> rc, id |-> vector.id,
                            hnsw_err |-> added.err]
                      ELSE [op |-> "insert", rc |-> rc, id |-> vector.id]
           /\ IF rc = CVECTOR_SUCCESS
              THEN /\ Len(data_file.records) < MaxRecords
                   /\ InsertLocked(vector, added)
                   /\ inserted' = [inserted EXCEPT ![vector.id] = vector.data]
                   /\ deleted' = [deleted EXCEPT ![vector.id] = FALSE]
                   /\ reinserted' = [reinserted EXCEPT ![vector.id] = deleted[vector.id]]
                   /\ succeeded' = [succeeded EXCEPT !.insert = @ + 1]
              ELSE UNCHANGED <<storeVars, historyVars>>
    /\ UNCHANGED <<is_open, lockVars, threadVars>>

\* level is the level hnsw_random_level draws
Insert(vector, level) ==
    InsertWith(vector, hnsw_add_vector(hnsw_index, vector.id, vector.data, level))

\* got is what cvector_get returned
GetReturn(id, got) ==
    last' = [op |-> "get", rc |-> got.rc, id |-> id, vector |-> got.vector]

Get(id) ==
    /\ is_open /\ AllIdle
    /\ GetReturn(id, cvector_get(id))
    /\ UNCHANGED <<storeVars, is_open, lockVars, threadVars, historyVars>>

Delete(id) ==
    /\ is_open /\ AllIdle
    /\ LET rc == DeleteValidation(id)
       IN  /\ last' = IF rc = CVECTOR_SUCCESS
                      THEN [op |-> "delete", rc |-> rc, id |-> id,
                            hnsw_err |-> hnsw_remove_vector(hnsw_index, id).err]
                      ELSE [op |-> "delete", rc |-> rc, id |-> id]
           /\ IF rc = CVECTOR_SUCCESS
              THEN /\ DeleteLocked(id, cvector_hash_find(hash_table, id))
                   /\ inserted' = [inserted EXCEPT ![id] = NoData]
                   /\ deleted' = [deleted EXCEPT ![id] = TRUE]
                   /\ reinserted' = [reinserted EXCEPT ![id] = FALSE]
                   /\ succeeded' = [succeeded EXCEPT !.delete = @ + 1]
              ELSE UNCHANGED <<storeVars, historyVars>>
    /\ UNCHANGED <<is_open, lockVars, threadVars>>

\* res is what cvector_search returned; a read lock taken and not released
\* stays held
SearchReturn(query, res) ==
    /\ last' = [op |-> "search", rc |-> res.rc, query |-> query,
                results |-> res.results, full_scan |-> res.locked /\ res.unlocked]
    /\ search_lock' = IF res.locked /\ ~ res.unlocked
                      THEN [search_lock EXCEPT !.readers = @ + 1]
                      ELSE search_lock

Search(query) ==
    /\ is_open /\ AllIdle
    /\ search_lock.readers < MaxReadHolds
    /\ SearchReturn(query, cvector_search(query))
    /\ UNCHANGED <<storeVars, is_open, mutex, threadVars, historyVars>>

Stats ==
    /\ is_open /\ AllIdle
    /\ last' = [op |-> "stats", rc |-> cvector_db_stats.rc,
                total_vectors |-> cvector_db_stats.total_vectors]
    /\ UNCHANGED <<storeVars, is_open, lockVars, threadVars, historyVars>>

\* cvector_db_close on an open handle; the memory of a closed store is freed:
\* nothing of it is left to read
CloseHandle ==
    /\ is_open
    /\ data_file' = cvector_write_header(data_file)
    /\ is_open' = FALSE
    /\ hash_table' = cvector_init_hash_table
    /\ hnsw_index' = hnsw_create_index(config.dimension, config.default_similarity)
    /\ vector_count' = 0
    /\ next_id' = 0
    /\ mutex' = [initialized |-> FALSE, owner |-> NoThread]
    /\ search_lock' = [initialized |-> FALSE, readers |-> 0]
    /\ last' = [op |-> "close", rc |-> CVECTOR_SUCCESS]
    /\ UNCHANGED <<config, file_pos, threadVars, historyVars>>

Close == AllIdle /\ CloseHandle

\* the scan of the log on open: (hash_table, hnsw_index) after records i..;
\* levels[i] is the level drawn for record i
\* the scan from a record cut after the first half of its header.  At the end
\* of the file fread finds no whole header and the scan ends.  Before a whole
\* record, fread completes the header with the first half of that record's
\* header: the tombstone byte it reads is the low byte of that record's
\* dimension, which is not zero for the dimensions of this model.  The scan
\* takes the record for a tombstone, seeks past dimension floats, into the
\* middle of the record that follows, and finds less than a header left: the
\* scan ends with nothing added for either record.
RebuildFromTorn(records, i, acc) == acc

RECURSIVE RebuildFromLog(_, _, _, _)
RebuildFromLog(records, i, levels, acc) ==
    IF i > Len(records) THEN acc
    ELSE IF Torn(records[i]) THEN RebuildFromTorn(records, i, acc)
    ELSE RebuildFromLog(records, i + 1, levels,
             IF records[i].is_deleted = 0
             THEN [hash_table |-> cvector_hash_insert(acc.hash_table, records[i].id,
                                      RecordOffset(records, i), records[i].dimension),
                   hnsw_index |-> hnsw_add_vector(acc.hnsw_index, records[i].id,
                                      records[i].data, levels[i]).index]
             ELSE acc)

\* the bytes fread finds for the header: a file the store wrote holds a whole
\* header, another file holds what its bytes field says
HeaderBytes(file) ==
    IF "bytes" \in DOMAIN file.header THEN file.header.bytes ELSE SIZEOF_FILE_HEADER

\* the header check of open
cvector_read_header(file) ==
    IF HeaderBytes(file) < SIZEOF_FILE_HEADER THEN CVECTOR_ERROR_FILE_IO
    ELSE IF file.header.magic # CVECTOR_MAGIC_NUMBER THEN CVECTOR_ERROR_DB_CORRUPT
    ELSE IF file.header.version # CVECTOR_FILE_VERSION THEN CVECTOR_ERROR_DB_CORRUPT
    ELSE CVECTOR_SUCCESS

\* an open that rebuilds the key index and leaves the HNSW index empty
OpenRebuiltKeysOnly(rebuilt) ==
    /\ hash_table' = rebuilt.hash_table
    /\ hnsw_index' = hnsw_index

\* the key index and the HNSW index the scan of the log built
OpenRebuilt(rebuilt) ==
    /\ hash_table' = rebuilt.hash_table
    /\ hnsw_index' = rebuilt.hnsw_index

\* open leaves the mutex and the lock as calloc left them: not initialized
Open(levels) ==
    /\ ~ is_open /\ AllIdle
    /\ cvector_read_header(data_file) = CVECTOR_SUCCESS
    /\ config' = [dimension |-> data_file.header.dimension,
                  default_similarity |-> data_file.header.default_similarity]
    /\ vector_count' = data_file.header.vector_count
    /\ next_id' = data_file.header.next_id
    /\ OpenRebuilt(RebuildFromLog(data_file.records, 1, levels,
           [hash_table |-> cvector_init_hash_table,
            hnsw_index |-> hnsw_create_index(data_file.header.dimension,
                                             data_file.header.default_similarity)]))
    /\ is_open' = TRUE
    /\ mutex' = [initialized |-> FALSE, owner |-> NoThread]
    /\ search_lock' = [initialized |-> FALSE, readers |-> 0]
    /\ last' = [op |-> "open", rc |-> CVECTOR_SUCCESS]
    /\ UNCHANGED <<data_file, file_pos, threadVars, historyVars>>

--------------------------------------------------------------------------
(* Specification: calls made one at a time on a store created empty *)

\* the state cvector_db_create leaves, for a valid configuration
Init ==
    /\ \E m \in StoreMetrics :
          /\ config = [dimension |-> Dimension, default_similarity |-> m]
          /\ hnsw_index = hnsw_create_index(Dimension, m)
          /\ data_file = [header |-> FileHeader(Dimension, m, 0, 1), records |-> << >>]
    /\ is_open = TRUE
    /\ next_id = 1
    /\ vector_count = 0
    /\ hash_table = cvector_init_hash_table
    /\ file_pos = SIZEOF_FILE_HEADER
    /\ mutex = [initialized |-> TRUE, owner |-> NoThread]
    /\ search_lock = [initialized |-> TRUE, readers |-> 0]
    /\ pc = [t \in Threads |-> "idle"]
    /\ call = [t \in Threads |-> NULL]
    /\ last = [op |-> "create", rc |-> CVECTOR_SUCCESS]
    /\ inserted = [id \in Ids |-> NoData]
    /\ deleted = [id \in Ids |-> FALSE]
    /\ reinserted = [id \in Ids |-> FALSE]
    /\ succeeded = [insert |-> 0, delete |-> 0]

Next ==
    \/ \E vector \in InsertedVectors, level \in Levels : Insert(vector, level)
    \/ \E id \in Ids : Get(id)
    \/ \E id \in Ids : Delete(id)
    \/ \E query \in Queries : Search(query)
    \/ Stats
    \/ Close
    \/ \E levels \in [1..MaxRecords -> Levels] : Open(levels)

Spec == Init /\ [][Next]_vars

--------------------------------------------------------------------------
(* Inserts made by several threads at once: each step is what one thread does
   between two points where another thread may run *)

\* the ids of the threads are pairwise disjoint
ThreadIds(t) == {id \in Ids : id % Cardinality(Threads) = t - 1}

ThreadVectors(t) == {vector \in InsertedVectors : vector.id \in ThreadIds(t)}

Pending == {t \in Threads : pc[t] # "idle"}

\* the call up to pthread_mutex_lock: the checks of the arguments and of the
\* dimension; level is the level hnsw_random_level will draw
InsertCall(t, vector, level) ==
    /\ is_open /\ pc[t] = "idle"
    /\ inserted[vector.id] = NoData
    /\ succeeded.insert + Cardinality(Pending) < MaxRecords
    /\ IF vector.dimension # config.dimension
       THEN /\ last' = [op |-> "insert", rc |-> CVECTOR_ERROR_DIMENSION_MISMATCH,
                        id |-> vector.id]
            /\ UNCHANGED threadVars
       ELSE /\ pc' = [pc EXCEPT ![t] = "lock"]
            /\ call' = [call EXCEPT ![t] = [vector |-> vector, level |-> level,
                                            count |-> 0]]
            /\ UNCHANGED last
    /\ UNCHANGED <<storeVars, is_open, lockVars, historyVars>>

\* pthread_mutex_lock returns with the mutex held: the mutex was initialized,
\* or its zeroed memory is taken for an unlocked mutex
InsertLock(t) ==
    /\ is_open /\ pc[t] = "lock"
    /\ mutex.owner = NoThread
    /\ mutex' = [mutex EXCEPT !.owner = t]
    /\ pc' = [pc EXCEPT ![t] = "write"]
    /\ UNCHANGED <<storeVars, is_open, search_lock, call, last, historyVars>>

\* pthread_mutex_lock on the mutex open left uninitialized returns an error,
\* which insert does not look at: the thread goes on without the mutex
InsertLockInvalid(t) ==
    /\ pc[t] = "lock"
    /\ ~ mutex.initialized
    /\ pc' = [pc EXCEPT ![t] = "write"]
    /\ UNCHANGED <<storeVars, is_open, lockVars, call, last, historyVars>>

\* pthread_mutex_unlock: releases the mutex if this thread holds it
Unlocked(t) == IF mutex.owner = t THEN [mutex EXCEPT !.owner = NoThread] ELSE mutex

\* from the lookup of the id to the load of vector_count for its increment
InsertWrite(t) ==
    /\ pc[t] = "write"
    /\ IF cvector_hash_find(hash_table, call[t].vector.id) # 0
       THEN /\ mutex' = Unlocked(t)
            /\ pc' = [pc EXCEPT ![t] = "idle"]
            /\ call' = [call EXCEPT ![t] = NULL]
            /\ last' = [op |-> "insert", rc |-> CVECTOR_ERROR_INVALID_ARGS,
                        id |-> call[t].vector.id]
            /\ UNCHANGED storeVars
       ELSE /\ InsertWrites(call[t].vector,
                   hnsw_add_vector(hnsw_index, call[t].vector.id,
                                   call[t].vector.data, call[t].level))
            /\ pc' = [pc EXCEPT ![t] = "count"]
            /\ call' = [call EXCEPT ![t].count = vector_count]
            /\ UNCHANGED <<config, next_id, vector_count, file_pos, mutex, last>>
    /\ UNCHANGED <<is_open, search_lock, historyVars>>

\* the store of the incremented vector_count, next_id, the unlock and the return
InsertReturn(t) ==
    /\ is_open /\ pc[t] = "count"
    /\ vector_count' = call[t].count + 1
    /\ next_id' = NextIdAfter(call[t].vector.id)
    /\ mutex' = Unlocked(t)
    /\ pc' = [pc EXCEPT ![t] = "idle"]
    /\ call' = [call EXCEPT ![t] = NULL]
    /\ last' = [op |-> "insert", rc |-> CVECTOR_SUCCESS, id |-> call[t].vector.id]
    /\ inserted' = [inserted EXCEPT ![call[t].vector.id] = call[t].vector.data]
    /\ succeeded' = [succeeded EXCEPT !.insert = @ + 1]
    /\ UNCHANGED <<data_file, config, hash_table, hnsw_index, file_pos, is_open,
                   search_lock, deleted, reinserted>>

NextThreads ==
    \/ \E t \in Threads : \E vector \in ThreadVectors(t), level \in Levels :
          InsertCall(t, vector, level)
    \/ \E t \in Threads : InsertLock(t)
    \/ \E t \in Threads : InsertLockInvalid(t)
    \/ \E t \in Threads : InsertWrite(t)
    \/ \E t \in Threads : InsertReturn(t)
    \/ Close
    \/ \E levels \in [1..MaxRecords -> Levels] : Open(levels)

SpecThreads == Init /\ [][NextThreads]_vars

--------------------------------------------------------------------------
(* Calls made one at a time on a created store, where an allocation inside
   hnsw_add_vector or hnsw_search_with_ef may fail *)

InsertNoMemory(vector) == InsertWith(vector, hnsw_add_vector_nomem(hnsw_index))

SearchNoMemory(query) ==
    /\ is_open /\ AllIdle
    /\ search_lock.readers < MaxReadHolds
    /\ SearchReturn(query, cvector_search_with(query, hnsw_search_nomem))
    /\ UNCHANGED <<storeVars, is_open, mutex, threadVars, historyVars>>

NextFaults ==
    \/ \E vector \in InsertedVectors, level \in Levels : Insert(vector, level)
    \/ \E vector \in InsertedVectors : InsertNoMemory(vector)
    \/ \E id \in Ids : Delete(id)
    \/ \E query \in Queries : Search(query)
    \/ \E query \in Queries : SearchNoMemory(query)

SpecFaults == Init /\ [][NextFaults]_vars

--------------------------------------------------------------------------
(* Calls a caller should not make: queries the validation rejects, thresholds
   no vector reaches, and a close of a handle that was closed *)

\* one query for each reason the validation has to reject
InvalidQueries ==
    [query_vector : {NULL_VECTOR}, dimension : {Dimension}, top_k : {1},
     similarity : {CVECTOR_SIMILARITY_COSINE}, min_similarity : {0}]
    \cup
    [query_vector : QueryDataOfDim(Dimension + 1), dimension : {Dimension + 1},
     top_k : {1}, similarity : {CVECTOR_SIMILARITY_COSINE}, min_similarity : {0}]
    \cup
    [query_vector : QueryDataOfDim(Dimension), dimension : {Dimension},
     top_k : {0, SEARCH_MAX_TOP_K + 1},
     similarity : {CVECTOR_SIMILARITY_COSINE}, min_similarity : {0}]
    \cup
    [query_vector : QueryDataOfDim(Dimension), dimension : {Dimension},
     top_k : {MaxTopK}, similarity : {CVECTOR_SIMILARITY_COSINE},
     min_similarity : {0 - SCALE - 1, SCALE + 1, 2 * SCALE}]

\* queries the validation accepts, with and without a threshold
ThresholdQueries ==
    [query_vector : QueryDataOfDim(Dimension), dimension : {Dimension},
     top_k : {MaxTopK}, similarity : QueryMetrics,
     min_similarity : {0 - SCALE, 0, SCALE}]

\* cvector_db_close on a handle cvector_db_close has freed: the test of
\* db->is_open reads freed memory, and the call either returns the error or
\* runs the body of close a second time on what that memory holds
CloseAgain ==
    /\ ~ is_open /\ AllIdle
    /\ \E freed_is_open \in BOOLEAN :
          last' = IF freed_is_open
                  THEN [op |-> "close", rc |-> CVECTOR_SUCCESS,
                        released_again |-> TRUE]
                  ELSE [op |-> "close", rc |-> CVECTOR_ERROR_INVALID_ARGS,
                        released_again |-> FALSE]
    /\ UNCHANGED <<storeVars, is_open, lockVars, threadVars, historyVars>>

NextMisuse ==
    \/ \E vector \in InsertedVectors, level \in Levels : Insert(vector, level)
    \/ \E id \in Ids : Delete(id)
    \/ \E query \in InvalidQueries \cup ThresholdQueries : Search(query)
    \/ Close
    \/ CloseAgain
    \/ \E levels \in [1..MaxRecords -> Levels] : Open(levels)

SpecMisuse == Init /\ [][NextMisuse]_vars

--------------------------------------------------------------------------
(* Create and open on a path that holds no file, a file of another origin, or a
   store written before *)

\* stat fails on the path
NoFile == [exists |-> FALSE]

\* files the store did not write: four bytes that are not the magic number, a
\* whole header with another magic number, a whole header of another version
ForeignFiles ==
    {[header |-> [magic |-> 0, version |-> CVECTOR_FILE_VERSION, bytes |-> 4],
      records |-> << >>],
     [header |-> [FileHeader(Dimension, CVECTOR_SIMILARITY_COSINE, 0, 1)
                     EXCEPT !.magic = 0],
      records |-> << >>],
     [header |-> [FileHeader(Dimension, CVECTOR_SIMILARITY_COSINE, 0, 1)
                     EXCEPT !.version = CVECTOR_FILE_VERSION + 1],
      records |-> << >>]}

\* configurations offered to create; data_path names the one path of the model
\* or is empty
Configs ==
    [dimension : {0, 1, Dimension, CVECTOR_MAX_DIMENSION, CVECTOR_MAX_DIMENSION + 1},
     default_similarity : {CVECTOR_SIMILARITY_COSINE - 1} \cup Metrics
                          \cup {CVECTOR_SIMILARITY_EUCLIDEAN + 1},
     data_path : {"", "db"}]

\* a create that does not look for a file at the path
cvector_db_create_rc_no_stat(cfg, file) ==
    IF cfg.dimension = 0 \/ cfg.dimension > CVECTOR_MAX_DIMENSION
    THEN CVECTOR_ERROR_INVALID_ARGS
    ELSE IF cfg.data_path = "" THEN CVECTOR_ERROR_INVALID_ARGS
    ELSE IF cfg.default_similarity < CVECTOR_SIMILARITY_COSINE
            \/ cfg.default_similarity > CVECTOR_SIMILARITY_EUCLIDEAN
    THEN CVECTOR_ERROR_INVALID_ARGS
    ELSE CVECTOR_SUCCESS

\* the checks of cvector_db_create, in the order of the code
cvector_db_create_rc(cfg, file) ==
    IF cfg.dimension = 0 \/ cfg.dimension > CVECTOR_MAX_DIMENSION
    THEN CVECTOR_ERROR_INVALID_ARGS
    ELSE IF cfg.data_path = "" THEN CVECTOR_ERROR_INVALID_ARGS
    ELSE IF cfg.default_similarity < CVECTOR_SIMILARITY_COSINE
            \/ cfg.default_similarity > CVECTOR_SIMILARITY_EUCLIDEAN
    THEN CVECTOR_ERROR_INVALID_ARGS
    ELSE IF file # NoFile THEN CVECTOR_ERROR_FILE_IO
    ELSE CVECTOR_SUCCESS

\* cvector_db_create; db is what the call left in *db: a rejection returns
\* before the first assignment to it
Create(cfg) ==
    /\ ~ is_open /\ AllIdle
    /\ LET rc == cvector_db_create_rc(cfg, data_file)
       IN  /\ last' = [op |-> "create", rc |-> rc, config |-> cfg,
                       db |-> IF rc = CVECTOR_SUCCESS THEN "handle" ELSE "unset"]
           /\ IF rc = CVECTOR_SUCCESS
              THEN /\ config' = [dimension |-> cfg.dimension,
                                 default_similarity |-> cfg.default_similarity]
                   /\ next_id' = 1
                   /\ vector_count' = 0
                   /\ hash_table' = cvector_init_hash_table
                   /\ hnsw_index' = hnsw_create_index(cfg.dimension,
                                                      cfg.default_similarity)
                   /\ data_file' = [header |-> FileHeader(cfg.dimension,
                                                   cfg.default_similarity, 0, 1),
                                    records |-> << >>]
                   /\ file_pos' = SIZEOF_FILE_HEADER
                   /\ is_open' = TRUE
                   /\ mutex' = [initialized |-> TRUE, owner |-> NoThread]
                   /\ search_lock' = [initialized |-> TRUE, readers |-> 0]
              ELSE UNCHANGED <<storeVars, is_open, lockVars>>
    /\ UNCHANGED <<threadVars, historyVars>>

\* what cvector_db_open returns for the file at the path
cvector_db_open_rc(file) ==
    IF file = NoFile THEN CVECTOR_ERROR_DB_NOT_FOUND ELSE cvector_read_header(file)

\* cvector_db_open that fails: without a file it returns before it allocates;
\* after a failed header check it closes the file, frees the key index and the
\* handle and sets *db to NULL
OpenFails ==
    /\ ~ is_open /\ AllIdle
    /\ cvector_db_open_rc(data_file) # CVECTOR_SUCCESS
    /\ last' = [op |-> "open", rc |-> cvector_db_open_rc(data_file),
                db |-> IF data_file = NoFile THEN "unset" ELSE "NULL"]
    /\ UNCHANGED <<storeVars, is_open, lockVars, threadVars, historyVars>>

OpenExisting(levels) ==
    /\ cvector_db_open_rc(data_file) = CVECTOR_SUCCESS
    /\ Open(levels)

\* no handle, and at the path no file or a file the store did not write
InitFiles ==
    /\ data_file \in {NoFile} \cup ForeignFiles
    /\ is_open = FALSE
    /\ config = [dimension |-> 0, default_similarity |-> CVECTOR_SIMILARITY_COSINE]
    /\ next_id = 0
    /\ vector_count = 0
    /\ hash_table = cvector_init_hash_table
    /\ hnsw_index = hnsw_create_index(0, CVECTOR_SIMILARITY_COSINE)
    /\ file_pos = 0
    /\ mutex = [initialized |-> FALSE, owner |-> NoThread]
    /\ search_lock = [initialized |-> FALSE, readers |-> 0]
    /\ pc = [t \in Threads |-> "idle"]
    /\ call = [t \in Threads |-> NULL]
    /\ last = [op |-> "none", rc |-> CVECTOR_SUCCESS]
    /\ inserted = [id \in Ids |-> NoData]
    /\ deleted = [id \in Ids |-> FALSE]
    /\ reinserted = [id \in Ids |-> FALSE]
    /\ succeeded = [insert |-> 0, delete |-> 0]

NextFiles ==
    \/ \E cfg \in Configs : Create(cfg)
    \/ OpenFails
    \/ \E levels \in [1..MaxRecords -> Levels] : OpenExisting(levels)
    \/ \E vector \in InsertedVectors, level \in Levels : Insert(vector, level)
    \/ \E id \in Ids : Delete(id)
    \/ Close

SpecFiles == InitFiles /\ [][NextFiles]_vars

--------------------------------------------------------------------------
(* The HNSW index on its own: adds, removes and adds whose connect step
   fails, on a graph that outgrows the small-graph path. A write through the
   NULL connections[level] of a lower-level neighbor either kills the process
   or lands without effect. *)

Crashed == last.op = "crash"

IndexStep(op, res) ==
    /\ \E crash \in {FALSE, res.fault} :
          last' = IF crash THEN [op |-> "crash"]
                  ELSE [op |-> op, rc |-> res.err]
    /\ hnsw_index' = res.index
    /\ UNCHANGED <<data_file, is_open, config, next_id, vector_count, hash_table,
                   file_pos, lockVars, threadVars, historyVars>>

AddVector(vector, level) ==
    /\ ~ Crashed
    /\ hnsw_index.node_count < MaxNodes
    /\ IndexStep("add", hnsw_add_vector(hnsw_index, hnsw_index.node_count + 1,
                            vector, level))

AddVectorFails(vector, level, fail_level) ==
    /\ ~ Crashed
    /\ fail_level <= level
    /\ hnsw_index.node_count < MaxNodes
    /\ hnsw_index.entry_point # UINT32_MAX
    /\ hnsw_index.node_count + 1 > SIMPLE_CONNECT_MAX_NODES
    /\ IndexStep("add", hnsw_add_vector_connect_failed(hnsw_index,
                            hnsw_index.node_count + 1, vector, level, fail_level))

RemoveVector(id) ==
    /\ ~ Crashed
    /\ IndexStep("remove", hnsw_remove_vector(hnsw_index, id)
                               @@ [fault |-> FALSE])

NextIndex ==
    \/ \E vector \in BaseData, level \in Levels : AddVector(vector, level)
    \/ \E vector \in BaseData, level \in Levels, fail_level \in Levels :
          AddVectorFails(vector, level, fail_level)
    \/ \E id \in 1..MaxNodes : RemoveVector(id)

\* a created store of the default metric
InitIndex == Init /\ config.default_similarity = CVECTOR_SIMILARITY_COSINE

SpecIndex == InitIndex /\ [][NextIndex]_vars

--------------------------------------------------------------------------
(* The HNSW index with its corruption flag (src/unnamed/part_002): the same
   add and remove, an add that looks at the flag first, the integrity check
   that sets the flag and the repair that clears it. node_capacity and the
   dimension field of the nodes are not modelled: no call makes them wrong. *)

ValidSlot(index, target) ==
    target \in 0..(index.node_count - 1) /\ index.nodes[target] # NULL

\* what the checks of hnsw_validate_integrity look for, the flag apart
Consistent(index) ==
    /\ \A i \in 0..(index.node_count - 1) :
          index.nodes[i] # NULL =>
             /\ index.nodes[i].level < HNSW_MAX_LEVEL
             /\ \A l \in 0..index.nodes[i].level :
                   /\ Len(index.nodes[i].connections[l]) <= MaxConnections(index.M, l)
                   /\ \A k \in 1..Len(index.nodes[i].connections[l]) :
                         ValidSlot(index, index.nodes[i].connections[l][k])
    /\ IF index.entry_point # UINT32_MAX
       THEN ValidSlot(index, index.entry_point)
       ELSE \A i \in 0..(index.node_count - 1) : index.nodes[i] = NULL

\* [err, index]
hnsw_validate_integrity(index) ==
    IF index.is_corrupted THEN [err |-> CVECTOR_ERROR_DB_CORRUPT, index |-> index]
    ELSE IF ~ Consistent(index)
    THEN [err |-> CVECTOR_ERROR_DB_CORRUPT, index |-> [index EXCEPT !.is_corrupted = TRUE]]
    ELSE [err |-> CVECTOR_SUCCESS, index |-> index]

\* the index with a valid entry point, and the count of that repair
RepairEntryPoint(index) ==
    LET elected == ElectEntryPoint(index.nodes, index.node_count, 0,
                       [entry_point |-> UINT32_MAX, max_level |-> 0])
    IN  IF (index.entry_point = UINT32_MAX \/ ~ ValidSlot(index, index.entry_point))
           /\ elected.entry_point # UINT32_MAX
        THEN [index |-> [index EXCEPT !.entry_point = elected.entry_point,
                                      !.max_level = elected.max_level],
              repairs |-> 1]
        ELSE [index |-> index, repairs |-> 0]

\* the edges the sweep of the index drops
InvalidEdges(index) ==
    {e \in [from : 0..(index.node_count - 1), level : 0..HNSW_MAX_LEVEL,
            pos : 1..(2 * index.M)] :
        /\ index.nodes[e.from] # NULL
        /\ e.level <= index.nodes[e.from].level
        /\ e.pos <= Len(index.nodes[e.from].connections[e.level])
        /\ ~ ValidSlot(index, index.nodes[e.from].connections[e.level][e.pos])}

\* every list of edges keeps its valid targets, in order
SweepEdges(index) ==
    [index EXCEPT !.nodes =
        [i \in 0..(index.node_count - 1) |->
            IF index.nodes[i] = NULL THEN NULL
            ELSE [index.nodes[i] EXCEPT !.connections =
                     [l \in 0..index.nodes[i].level |->
                         SelectSeq(index.nodes[i].connections[l],
                                   LAMBDA t : ValidSlot(index, t))]]]]

\* [err, index]
hnsw_repair_index(index) ==
    LET checked == hnsw_validate_integrity(index)
        entry == RepairEntryPoint(checked.index)
        repairs == entry.repairs + Cardinality(InvalidEdges(entry.index))
        swept == SweepEdges(entry.index)
    IN  IF checked.err = CVECTOR_SUCCESS THEN checked
        ELSE hnsw_validate_integrity(
                 IF repairs > 0 THEN [swept EXCEPT !.is_corrupted = FALSE] ELSE swept)

Refused == [err |-> CVECTOR_ERROR_DB_CORRUPT, index |-> hnsw_index, fault |-> FALSE]

CheckedAdd(vector, level) ==
    IF hnsw_index.is_corrupted
    THEN ~ Crashed /\ IndexStep("add", Refused)
    ELSE AddVector(vector, level)

CheckedAddFails(vector, level, fail_level) ==
    ~ hnsw_index.is_corrupted /\ AddVectorFails(vector, level, fail_level)

Validate ==
    /\ ~ Crashed
    /\ IndexStep("validate", hnsw_validate_integrity(hnsw_index) @@ [fault |-> FALSE])

Repair ==
    /\ ~ Crashed
    /\ IndexStep("repair", hnsw_repair_index(hnsw_index) @@ [fault |-> FALSE])

InitIntegrity ==
    /\ \E m \in {CVECTOR_SIMILARITY_COSINE} :
          /\ config = [dimension |-> Dimension, default_similarity |-> m]
          /\ hnsw_index = hnsw_create_index(Dimension, m) @@ [is_corrupted |-> FALSE]
          /\ data_file = [header |-> FileHeader(Dimension, m, 0, 1), records |-> << >>]
    /\ is_open = TRUE
    /\ next_id = 1
    /\ vector_count = 0
    /\ hash_table = cvector_init_hash_table
    /\ file_pos = SIZEOF_FILE_HEADER
    /\ mutex = [initialized |-> TRUE, owner |-> NoThread]
    /\ search_lock = [initialized |-> TRUE, readers |-> 0]
    /\ pc = [t \in Threads |-> "idle"]
    /\ call = [t \in Threads |-> NULL]
    /\ last = [op |-> "create", rc |-> CVECTOR_SUCCESS]
    /\ inserted = [id \in Ids |-> NoData]
    /\ deleted = [id \in Ids |-> FALSE]
    /\ reinserted = [id \in Ids |-> FALSE]
    /\ succeeded = [insert |-> 0, delete |-> 0]

NextIntegrity ==
    \/ \E vector \in BaseData, level \in Levels : CheckedAdd(vector, level)
    \/ \E vector \in BaseData, level \in Levels, fail_level \in Levels :
          CheckedAddFails(vector, level, fail_level)
    \/ \E id \in 1..MaxNodes : RemoveVector(id)
    \/ Validate
    \/ Repair

SpecIntegrity == InitIntegrity /\ [][NextIntegrity]_vars

--------------------------------------------------------------------------
(* Specification: a store reopened on a log whose last record was cut short *)

\* the first half of the record header reached the file: id, dimension, padding
TornBytes == SIZEOF_VECTOR_RECORD \div 2

\* what an insert that stopped after TornBytes bytes leaves at the end
TornRecords ==
    {[id |-> id, dimension |-> Dimension, is_deleted |-> 0, data |-> data,
      bytes |-> TornBytes] : id \in Ids, data \in DataOfDim(Dimension)}

\* the files left by a store that stopped in its first insert, or in the insert
\* after a close and reopen with one record
TornLogs ==
    {[header |-> FileHeader(Dimension, CVECTOR_SIMILARITY_COSINE, 0, 1),
      records |-> <<torn>>] : torn \in TornRecords}
    \cup
    UNION {{[header |-> FileHeader(Dimension, CVECTOR_SIMILARITY_COSINE, 1, old.id + 1),
             records |-> <<[id |-> old.id, dimension |-> Dimension, is_deleted |-> 0,
                            data |-> old.data], torn>>] :
               torn \in {t \in TornRecords : t.id # old.id}} :
           old \in {v \in InsertedVectors : v.dimension = Dimension}}

InitTorn ==
    /\ data_file \in TornLogs
    /\ is_open = FALSE
    /\ config = [dimension |-> Dimension,
                 default_similarity |-> CVECTOR_SIMILARITY_COSINE]
    /\ next_id = 0
    /\ vector_count = 0
    /\ hash_table = cvector_init_hash_table
    /\ hnsw_index = hnsw_create_index(Dimension, CVECTOR_SIMILARITY_COSINE)
    /\ file_pos = SIZEOF_FILE_HEADER
    /\ mutex = [initialized |-> FALSE, owner |-> NoThread]
    /\ search_lock = [initialized |-> FALSE, readers |-> 0]
    /\ pc = [t \in Threads |-> "idle"]
    /\ call = [t \in Threads |-> NULL]
    /\ last = [op |-> "close", rc |-> CVECTOR_SUCCESS]
    /\ inserted = [id \in Ids |->
                      IF \E i \in 1..Len(data_file.records) :
                            ~ Torn(data_file.records[i]) /\ data_file.records[i].id = id
                      THEN data_file.records[1].data ELSE NoData]
    /\ deleted = [id \in Ids |-> FALSE]
    /\ reinserted = [id \in Ids |-> FALSE]
    /\ succeeded = [insert |-> 0, delete |-> 0]

NextTorn ==
    \/ \E levels \in [1..MaxRecords -> Levels] : Open(levels)
    \/ \E vector \in InsertedVectors, level \in Levels : Insert(vector, level)
    \/ \E id \in Ids : Get(id)
    \/ \E id \in Ids : Delete(id)
    \/ Close

SpecTorn == InitTorn /\ [][NextTorn]_vars

--------------------------------------------------------------------------
(* Specification: calls made one at a time, where the write of a tombstone *)
(* can fail                                                                *)

\* cvector_delete when fwrite of the tombstone byte writes nothing: the key
\* index entry is marked and the HNSW node removed before the write, the call
\* returns before the live-count is decremented
DeleteWriteFails(id) ==
    /\ is_open /\ AllIdle
    /\ DeleteValidation(id) = CVECTOR_SUCCESS
    /\ hash_table' = [hash_table EXCEPT
           ![cvector_hash(id)][cvector_hash_find(hash_table, id)].is_deleted = TRUE]
    /\ hnsw_index' = hnsw_remove_vector(hnsw_index, id).index
    /\ last' = [op |-> "delete", rc |-> CVECTOR_ERROR_FILE_IO, id |-> id]
    /\ UNCHANGED <<data_file, vector_count, config, next_id, file_pos, is_open,
                   lockVars, threadVars, historyVars>>

NextWriteFaults ==
    \/ \E vector \in InsertedVectors, level \in Levels : Insert(vector, level)
    \/ \E id \in Ids : Get(id)
    \/ \E id \in Ids : Delete(id)
    \/ \E id \in Ids : DeleteWriteFails(id)
    \/ Close
    \/ \E levels \in [1..MaxRecords -> Levels] : Open(levels)

SpecWriteFaults == Init /\ [][NextWriteFaults]_vars

--------------------------------------------------------------------------
(* Specification: the key index on its own, with ids that share a bucket.  *)
(* The steps are the key-index part of insert, delete and get; the data    *)
(* file and the HNSW index are left as they are.                           *)

\* two ids of the same bucket
CollidingIds == {1, 1 + CVECTOR_HASH_TABLE_SIZE}

\* inserts made on the key index
MaxGrowth == 3

\* offset of the n-th record of a log of whole records, counted from 0
NthOffset(n) == SIZEOF_FILE_HEADER + n * (SIZEOF_VECTOR_RECORD + Dimension * SIZEOF_FLOAT)

\* the chain left by the insert of id 1 followed by n inserts and deletes of
\* the other id of its bucket: n tombstones in front of the live entry
ChainAfterCycles(n) ==
    [i \in 1..(n + 1) |->
        IF i = n + 1
        THEN [id |-> 1, file_offset |-> NthOffset(0), dimension |-> Dimension,
              is_deleted |-> FALSE]
        ELSE [id |-> 1 + CVECTOR_HASH_TABLE_SIZE, file_offset |-> NthOffset(n + 1 - i),
              dimension |-> Dimension, is_deleted |-> TRUE]]

EntryCount == Len(hash_table[0]) + Len(hash_table[1]) + Len(hash_table[2])

\* the key-index part of cvector_insert: the duplicate check and the new entry
KeyInsert(id) ==
    /\ succeeded.insert < MaxGrowth
    /\ IF cvector_hash_find(hash_table, id) # 0
       THEN /\ last' = [op |-> "insert", rc |-> CVECTOR_ERROR_INVALID_ARGS, id |-> id]
            /\ UNCHANGED <<hash_table, succeeded>>
       ELSE /\ last' = [op |-> "insert", rc |-> CVECTOR_SUCCESS, id |-> id]
            /\ hash_table' = cvector_hash_insert(hash_table, id, NthOffset(EntryCount),
                                                 Dimension)
            /\ succeeded' = [succeeded EXCEPT !.insert = @ + 1]
    /\ UNCHANGED <<data_file, is_open, config, next_id, vector_count, hnsw_index,
                   file_pos, lockVars, threadVars, inserted, deleted, reinserted>>

\* the key-index part of cvector_delete: the lookup and the mark on the entry
KeyDelete(id) ==
    /\ IF cvector_hash_find(hash_table, id) = 0
       THEN /\ last' = [op |-> "delete", rc |-> CVECTOR_ERROR_VECTOR_NOT_FOUND, id |-> id]
            /\ UNCHANGED hash_table
       ELSE /\ last' = [op |-> "delete", rc |-> CVECTOR_SUCCESS, id |-> id]
            /\ hash_table' = [hash_table EXCEPT
                   ![cvector_hash(id)][cvector_hash_find(hash_table, id)].is_deleted = TRUE]
    /\ UNCHANGED <<data_file, is_open, config, next_id, vector_count, hnsw_index,
                   file_pos, lockVars, threadVars, historyVars>>

\* the key-index part of cvector_get: the lookup
KeyFind(id) ==
    /\ last' = [op |-> "get", id |-> id,
                rc |-> IF cvector_hash_find(hash_table, id) = 0
                       THEN CVECTOR_ERROR_VECTOR_NOT_FOUND ELSE CVECTOR_SUCCESS]
    /\ UNCHANGED <<storeVars, is_open, lockVars, threadVars, historyVars>>

\* the key index of a store just created, or after the insert of id 1 and
\* inserts and deletes of the other id that leave its chain two entries short
\* of the limit of the lookup
InitKeys ==
    /\ data_file = [header |-> FileHeader(Dimension, CVECTOR_SIMILARITY_COSINE, 0, 1),
                    records |-> << >>]
    /\ is_open = TRUE
    /\ config = [dimension |-> Dimension,
                 default_similarity |-> CVECTOR_SIMILARITY_COSINE]
    /\ next_id = 1
    /\ vector_count = 0
    /\ hash_table \in {cvector_init_hash_table,
                       [cvector_init_hash_table EXCEPT
                           ![1] = ChainAfterCycles(HASH_FIND_MAX_ITERATIONS - 2)]}
    /\ hnsw_index = hnsw_create_index(Dimension, CVECTOR_SIMILARITY_COSINE)
    /\ file_pos = SIZEOF_FILE_HEADER
    /\ mutex = [initialized |-> TRUE, owner |-> NoThread]
    /\ search_lock = [initialized |-> TRUE, readers |-> 0]
    /\ pc = [t \in Threads |-> "idle"]
    /\ call = [t \in Threads |-> NULL]
    /\ last = [op |-> "create", rc |-> CVECTOR_SUCCESS]
    /\ inserted = [id \in Ids |-> NoData]
    /\ deleted = [id \in Ids |-> FALSE]
    /\ reinserted = [id \in Ids |-> FALSE]
    /\ succeeded = [insert |-> 0, delete |-> 0]

NextKeys ==
    \/ \E id \in CollidingIds : KeyInsert(id)
    \/ \E id \in CollidingIds : KeyDelete(id)
    \/ \E id \in CollidingIds : KeyFind(id)

SpecKeys == InitKeys /\ [][NextKeys]_vars


--------------------------------------------------------------------------
(* Inserts, gets, searches and a close made by several threads at once on a
   created store: a step ends where the call takes a lock, or has moved the
   position of the file handle and is about to read or write there.  The two
   fwrite of an insert are one step, and so are the two fread of a get. *)

\* the queries of the threads: valid, without a threshold
ThreadQueries ==
    [query_vector : QueryDataOfDim(Dimension), dimension : {Dimension},
     top_k : {MaxTopK}, similarity : {CVECTOR_SIMILARITY_COSINE}, min_similarity : {0}]

\* the threads that are inside cvector_insert, between its pthread_mutex_lock
\* and its pthread_mutex_unlock
Inserting == {t \in Threads : pc[t] \in {"write", "fwrite", "count"}}

\* the threads that hold the read lock and are about to traverse the graph
Searching == {t \in Threads : pc[t] = "search"}

\* from the lookup of the id to the fseek to the end of the file and the ftell
InsertSeek(t) ==
    /\ is_open /\ pc[t] = "write"
    /\ IF cvector_hash_find(hash_table, call[t].vector.id) # 0
       THEN /\ mutex' = Unlocked(t)
            /\ pc' = [pc EXCEPT ![t] = "idle"]
            /\ call' = [call EXCEPT ![t] = NULL]
            /\ last' = [op |-> "insert", rc |-> CVECTOR_ERROR_INVALID_ARGS,
                        id |-> call[t].vector.id]
            /\ UNCHANGED file_pos
       ELSE /\ file_pos' = EndOfFile(data_file)
            /\ pc' = [pc EXCEPT ![t] = "fwrite"]
            /\ call' = [call EXCEPT ![t] = [vector |-> call[t].vector,
                                            level |-> call[t].level, count |-> 0,
                                            file_offset |-> InsertOffset(data_file)]]
            /\ UNCHANGED <<mutex, last>>
    /\ UNCHANGED <<data_file, config, next_id, vector_count, hash_table, hnsw_index,
                   is_open, search_lock, historyVars>>

\* the record written where the handle stands: at the end of the file it is
\* appended, at the start of a record it takes the place of that record (all
\* records of a store have the same size)
WriteRecordAt(file, pos, vector) ==
    IF pos = EndOfFile(file) THEN AppendRecord(file, vector)
    ELSE IF RecordAt(file, pos) = 0 THEN file
    ELSE [file EXCEPT !.records[RecordAt(file, pos)] =
             [id |-> vector.id, dimension |-> vector.dimension,
              is_deleted |-> 0, data |-> vector.data]]

\* the fwrite of the record and of the data where the handle stands, the insert
\* into the key index under the offset ftell gave and into the HNSW graph, and
\* the load of vector_count for its increment
InsertFwrite(t) ==
    /\ is_open /\ pc[t] = "fwrite"
    /\ data_file' = WriteRecordAt(data_file, file_pos, call[t].vector)
    /\ file_pos' = file_pos + SIZEOF_VECTOR_RECORD
                            + call[t].vector.dimension * SIZEOF_FLOAT
    /\ hash_table' = cvector_hash_insert(hash_table, call[t].vector.id,
                                         call[t].file_offset, call[t].vector.dimension)
    /\ hnsw_index' = hnsw_add_vector(hnsw_index, call[t].vector.id,
                                     call[t].vector.data, call[t].level).index
    /\ pc' = [pc EXCEPT ![t] = "count"]
    /\ call' = [call EXCEPT ![t].count = vector_count]
    /\ UNCHANGED <<config, next_id, vector_count, is_open, lockVars, last, historyVars>>

\* cvector_get up to its fseek; it takes no lock.  The gets of the threads do
\* not overlap each other, only the inserts.
GetSeek(t, id) ==
    /\ is_open /\ pc[t] = "idle"
    /\ \A u \in Threads : pc[u] # "fread"
    /\ IF id = 0 \/ cvector_hash_find(hash_table, id) = 0
       THEN /\ last' = [op |-> "get", id |-> id, vector |-> NULL,
                        rc |-> IF id = 0 THEN CVECTOR_ERROR_INVALID_ARGS
                               ELSE CVECTOR_ERROR_VECTOR_NOT_FOUND,
                        live_at_call |-> inserted[id] # NoData]
            /\ UNCHANGED <<file_pos, threadVars>>
       ELSE /\ file_pos' = hash_table[cvector_hash(id)]
                               [cvector_hash_find(hash_table, id)].file_offset
            /\ pc' = [pc EXCEPT ![t] = "fread"]
            /\ call' = [call EXCEPT ![t] = [id |-> id,
                                            live_at_call |-> inserted[id] # NoData]]
            /\ UNCHANGED last
    /\ UNCHANGED <<data_file, config, next_id, vector_count, hash_table, hnsw_index,
                   is_open, lockVars, historyVars>>

\* the fread of the record and of the data where the handle stands, and the return
GetRead(t) ==
    /\ is_open /\ pc[t] = "fread"
    /\ last' = [op |-> "get", id |-> call[t].id,
                rc |-> ReadEntry(RecordAt(data_file, file_pos)).rc,
                vector |-> ReadEntry(RecordAt(data_file, file_pos)).vector,
                live_at_call |-> call[t].live_at_call]
    /\ file_pos' = IF RecordAt(data_file, file_pos) = 0 THEN file_pos
                   ELSE file_pos + RecordSize(data_file.records[RecordAt(data_file,
                                                                          file_pos)])
    /\ pc' = [pc EXCEPT ![t] = "idle"]
    /\ call' = [call EXCEPT ![t] = NULL]
    /\ UNCHANGED <<data_file, config, next_id, vector_count, hash_table, hnsw_index,
                   is_open, lockVars, historyVars>>

\* cvector_search up to the return of pthread_rwlock_rdlock
SearchLock(t, query) ==
    /\ is_open /\ pc[t] = "idle"
    /\ SearchValidation(query) = CVECTOR_SUCCESS
    /\ search_lock.readers < MaxReadHolds
    /\ search_lock' = [search_lock EXCEPT !.readers = @ + 1]
    /\ pc' = [pc EXCEPT ![t] = "search"]
    /\ call' = [call EXCEPT ![t] = [query |-> query]]
    /\ UNCHANGED <<storeVars, is_open, mutex, last, historyVars>>

\* the traversal of the HNSW graph and the return; the read lock is released
\* where the code releases it
SearchTraverse(t) ==
    /\ is_open /\ pc[t] = "search"
    /\ last' = [op |-> "search", rc |-> cvector_search(call[t].query).rc,
                query |-> call[t].query,
                results |-> cvector_search(call[t].query).results]
    /\ search_lock' = IF cvector_search(call[t].query).unlocked
                      THEN [search_lock EXCEPT !.readers = @ - 1] ELSE search_lock
    /\ pc' = [pc EXCEPT ![t] = "idle"]
    /\ call' = [call EXCEPT ![t] = NULL]
    /\ UNCHANGED <<storeVars, is_open, mutex, historyVars>>

\* cvector_db_close called by a thread that is in no other call; it takes no lock
CloseDuring(t) == pc[t] = "idle" /\ CloseHandle

NextConcurrent ==
    \/ \E t \in Threads : \E vector \in ThreadVectors(t), level \in Levels :
          InsertCall(t, vector, level)
    \/ \E t \in Threads : InsertLock(t)
    \/ \E t \in Threads : InsertSeek(t)
    \/ \E t \in Threads : InsertFwrite(t)
    \/ \E t \in Threads : InsertReturn(t)
    \/ \E t \in Threads : \E id \in Ids : GetSeek(t, id)
    \/ \E t \in Threads : GetRead(t)
    \/ \E t \in Threads : \E query \in ThreadQueries : SearchLock(t, query)
    \/ \E t \in Threads : SearchTraverse(t)
    \/ \E t \in Threads : CloseDuring(t)

SpecConcurrent == Init /\ [][NextConcurrent]_vars

--------------------------------------------------------------------------
(* Properties of the calls made one at a time *)

LiveIds == {id \in Ids : inserted[id] # NoData}

Returned(op) == last.op = op /\ last.rc = CVECTOR_SUCCESS

\* scores of a result list never increase from one result to the next
NonIncreasing(results) ==
    \A i \in 1..Len(results) : \A j \in 1..Len(results) :
        i < j => results[i].similarity >= results[j].similarity

\* C1: a get of an id whose last successful insert was not followed by a delete
\* returns success with the id, the dimension and the data of that insert, for
\* every id insert accepts
C1_GetReturnsInserted ==
    (last.op = "get" /\ inserted[last.id] # NoData) =>
        /\ last.rc = CVECTOR_SUCCESS
        /\ last.vector.id = last.id
        /\ last.vector.dimension = Len(inserted[last.id])
        /\ last.vector.data = inserted[last.id]

\* C2: the live-count stats reports is the number of inserts that returned
\* success minus the number of deletes that returned success
C2_LiveCountIsInsertsMinusDeletes ==
    last.op = "stats" =>
        /\ last.rc = CVECTOR_SUCCESS
        /\ last.total_vectors = succeeded.insert - succeeded.delete

\* stats was called after an insert and a delete had succeeded and one vector is live
C2_Witness ==
    /\ last.op = "stats"
    /\ succeeded.delete > 0
    /\ last.total_vectors = 1

C4_ExactMatchRanksFirst ==
    (/\ Returned("search")
     /\ config.default_similarity = CVECTOR_SIMILARITY_COSINE
     /\ last.query.similarity = CVECTOR_SIMILARITY_COSINE
     /\ \E id \in LiveIds : inserted[id] = last.query.query_vector) =>
        /\ Len(last.results) >= 1
        /\ inserted[last.results[1].id] = last.query.query_vector

\* C5: a successful search returns at most top_k results, in non-increasing
\* order of score
C5_AtMostKSortedDescending ==
    Returned("search") =>
        /\ Len(last.results) <= last.query.top_k
        /\ NonIncreasing(last.results)

\* a search returned two results of different scores
C5_Witness ==
    /\ Returned("search")
    /\ Len(last.results) = 2
    /\ last.results[1].similarity > last.results[2].similarity

StoreUnchanged == UNCHANGED <<vector_count, next_id, hash_table, data_file, hnsw_index>>

C8_ReopenPreserves ==
    last.op = "open" =>
        /\ \A id \in LiveIds :
              /\ cvector_get(id).rc = CVECTOR_SUCCESS
              /\ cvector_get(id).vector.dimension = Len(inserted[id])
              /\ cvector_get(id).vector.data = inserted[id]
        /\ \A id \in Ids : deleted[id] =>
              cvector_get(id).rc = CVECTOR_ERROR_VECTOR_NOT_FOUND
        /\ vector_count = Cardinality(LiveIds)

\* C9: the results of a search carry the score of the metric named in the
\* query and are ordered by it, whatever the default metric of the store
C9_ScoredByQueryMetric ==
    Returned("search") =>
        /\ \A i \in 1..Len(last.results) :
              /\ inserted[last.results[i].id] # NoData
              /\ last.results[i].similarity =
                    QuerySimilarity(last.query, inserted[last.results[i].id])
        /\ NonIncreasing(last.results)

\* C10: once every insert of the threads has returned, live-count is the number
\* of inserts that returned success and get returns every inserted id with the
\* data inserted
C10_ConcurrentInsertsAllKept ==
    (is_open /\ AllIdle) =>
        /\ vector_count = succeeded.insert
        /\ \A id \in LiveIds :
              /\ cvector_get(id).rc = CVECTOR_SUCCESS
              /\ cvector_get(id).vector.data = inserted[id]

--------------------------------------------------------------------------
(* Properties of the calls of several threads that interleave *)

\* C11: while a search holds the read lock and is about to traverse the HNSW
\* graph, no insert writes to the HNSW graph or to the key index
C11_NoWriteWhileSearching ==
    [][\A t \in Threads : InsertFwrite(t) => Searching = {}]_vars

\* C12: a get of an id that was live when the get was called, and that no call
\* deletes or changes, returns success with that id and the data inserted for
\* it, whatever inserts run at the same time
C12_GetSeesWholeVector ==
    (last.op = "get" /\ last.id # 0 /\ last.live_at_call) =>
        /\ last.rc = CVECTOR_SUCCESS
        /\ last.vector.id = last.id
        /\ last.vector.data = inserted[last.id]

\* C13: while a thread is inside cvector_insert and holds the mutex the store
\* has not been closed: its key index, HNSW index and file handle have not been
\* freed
C13_NoCloseWhileInserting ==
    Inserting # {} => is_open

--------------------------------------------------------------------------
(* Search over every live vector, the full scan, and failures of the index *)

\* the ids a search returned
ResultIds == {last.results[i].id : i \in 1..Len(last.results)}

\* the score of a live id under the metric the query asks for
QueryScore(query, id) == SimilarityTable[query.similarity][query.query_vector][inserted[id]]

\* the live ids whose score passes the threshold of the query
Passing(query) ==
    {id \in LiveIds : query.min_similarity = 0
                      \/ QueryScore(query, id) >= query.min_similarity}

\* C14: a successful search with top_k equal to the number of live vectors and
\* min_similarity 0 returns exactly the set of live ids, whatever inserts and
\* deletes came before
C14_SearchReturnsAllLive ==
    (/\ Returned("search")
     /\ last.rc = CVECTOR_SUCCESS
     /\ last.query.min_similarity = 0
     /\ last.query.top_k = Cardinality(LiveIds)) =>
        /\ ResultIds = LiveIds
        /\ Len(last.results) = Cardinality(LiveIds)

\* C15: a search that falls back to the full scan returns the top_k highest
\* scoring live vectors under the metric of the query, sorted by score
C15_FullScanReturnsTopK ==
    (Returned("search") /\ last.full_scan /\ last.rc = CVECTOR_SUCCESS) =>
        /\ Len(last.results) = Min(last.query.top_k, Cardinality(Passing(last.query)))
        /\ Cardinality(ResultIds) = Len(last.results)
        /\ ResultIds \subseteq Passing(last.query)
        /\ \A i \in 1..Len(last.results) :
              last.results[i].similarity = QueryScore(last.query, last.results[i].id)
        /\ \A id \in ResultIds : \A other \in Passing(last.query) \ ResultIds :
              QueryScore(last.query, id) >= QueryScore(last.query, other)
        /\ \A i \in 1..(Len(last.results) - 1) :
              last.results[i].similarity >= last.results[i + 1].similarity

\* C16: an insert whose HNSW add failed still returns success, its record stays,
\* the count went up and get returns the vector; a delete whose HNSW removal
\* failed still returns success, the record is tombstoned and the count went down
C16_IndexFailureIsNotAnError ==
    /\ (last.op = "insert" /\ "hnsw_err" \in DOMAIN last
        /\ last.hnsw_err # CVECTOR_SUCCESS) =>
          /\ last.rc = CVECTOR_SUCCESS
          /\ cvector_hash_find(hash_table, last.id) # 0
          /\ vector_count = succeeded.insert - succeeded.delete
          /\ cvector_get(last.id).rc = CVECTOR_SUCCESS
          /\ cvector_get(last.id).vector.data = inserted[last.id]
    /\ (last.op = "delete" /\ "hnsw_err" \in DOMAIN last
        /\ last.hnsw_err # CVECTOR_SUCCESS) =>
          /\ last.rc = CVECTOR_SUCCESS
          /\ cvector_get(last.id).rc = CVECTOR_ERROR_VECTOR_NOT_FOUND
          /\ vector_count = succeeded.insert - succeeded.delete

--------------------------------------------------------------------------
(* Re-insertion of a deleted id *)

--------------------------------------------------------------------------
(* Rejected calls *)

\* C18: a second close of a handle that was closed returns an error and has no
\* other effect: nothing of the store changes and nothing is released again
C18_SecondCloseOnlyFails ==
    [][CloseAgain =>
          /\ last'.rc # CVECTOR_SUCCESS
          /\ ~ last'.released_again
          /\ UNCHANGED <<storeVars, is_open, lockVars>>]_vars

\* the reasons the claim gives for rejecting a query
RejectedByContract(query) ==
    \/ query.query_vector = NULL_VECTOR
    \/ query.dimension # config.dimension
    \/ query.top_k = 0
    \/ query.top_k > 10000
    \/ query.min_similarity < 0 - SCALE
    \/ query.min_similarity > SCALE

C20_ThresholdAboveEveryScore ==
    (/\ last.op = "search"
     /\ last.query.query_vector # NULL_VECTOR
     /\ last.query.dimension = config.dimension
     /\ last.query.top_k \in 1..10000
     /\ last.query.similarity = config.default_similarity
     /\ LiveIds # {}
     /\ \A id \in LiveIds : QueryScore(last.query, id) < last.query.min_similarity) =>
        /\ last.rc = CVECTOR_SUCCESS
        /\ last.results = << >>

--------------------------------------------------------------------------
(* The similarity threshold *)

\* what the HNSW search returns for the query of the last search, before the
\* threshold is applied (a search leaves the index as it was)
UnfilteredResults ==
    hnsw_search_with_ef(hnsw_index, last.query.query_vector,
                        last.query.top_k, last.query.top_k * 2).results

--------------------------------------------------------------------------
(* Create and open that fail *)

\* the configurations and paths the claim has create reject
RejectedAtCreate(cfg) ==
    \/ cfg.dimension = 0
    \/ cfg.dimension > 4096
    \/ cfg.default_similarity \notin Metrics
    \/ cfg.data_path = ""
    \/ data_file # NoFile

\* C22: create rejects dimension 0, a dimension above 4096, an unknown metric, an
\* empty path and a path where a file exists; a rejection returns an error,
\* yields no handle and leaves the file as it was; every other configuration,
\* dimensions 1 and 4096 among them, is accepted
C22_CreateValidates ==
    [][\A cfg \in Configs : Create(cfg) =>
          IF RejectedAtCreate(cfg)
          THEN /\ last'.rc # CVECTOR_SUCCESS
               /\ last'.db # "handle"
               /\ ~ is_open'
               /\ data_file' = data_file
          ELSE /\ last'.rc = CVECTOR_SUCCESS
               /\ last'.db = "handle"
               /\ is_open'
               /\ config'.dimension = cfg.dimension]_vars

\* a create was rejected at a path where a closed store holds a record
C22_Witness ==
    /\ last.op = "create" /\ last.rc = CVECTOR_ERROR_FILE_IO
    /\ ~ is_open
    /\ data_file # NoFile
    /\ Len(data_file.records) > 0

\* C23: open returns db-not-found where there is no file and db-corrupt for a
\* file whose magic number or version does not match; it then returns no handle,
\* leaves the file unchanged and keeps no key index, HNSW index or open file
C23_OpenRejects ==
    [][OpenFails =>
          /\ data_file = NoFile => last'.rc = CVECTOR_ERROR_DB_NOT_FOUND
          /\ (data_file # NoFile
              /\ (data_file.header.magic # CVECTOR_MAGIC_NUMBER
                  \/ data_file.header.version # CVECTOR_FILE_VERSION)) =>
                last'.rc = CVECTOR_ERROR_DB_CORRUPT
          /\ last'.db # "handle"
          /\ ~ is_open'
          /\ UNCHANGED storeVars]_vars

--------------------------------------------------------------------------
(* Delete of an id that is not live, search on an empty store *)

\* C24: a delete of an id that is not live, because it was never inserted or was
\* deleted, returns vector-not-found and leaves the live-count, the key index,
\* the log file and the HNSW graph as they were
C24_DeleteOfAbsentId ==
    [][\A id \in Ids : (Delete(id) /\ inserted[id] = NoData) =>
          /\ last'.rc = CVECTOR_ERROR_VECTOR_NOT_FOUND
          /\ UNCHANGED <<vector_count, hash_table, data_file, hnsw_index>>]_vars

\* C25: a search on a store without a live vector, freshly created or after
\* every inserted vector was deleted, returns success with no result
C25_SearchOnEmptyStore ==
    (last.op = "search" /\ LiveIds = {}) =>
        /\ last.rc = CVECTOR_SUCCESS
        /\ last.results = << >>

\* a search returned after every inserted vector had been deleted
C25_Witness ==
    /\ last.op = "search" /\ last.rc = CVECTOR_SUCCESS
    /\ LiveIds = {}
    /\ succeeded.insert > 0
    /\ succeeded.delete = succeeded.insert

--------------------------------------------------------------------------
(* The HNSW search: the walk down the levels and the choice of the results *)

\* the candidates the level-0 search gathered for the query of the last search
LastBeam ==
    LevelZeroBeam(hnsw_index, last.query.query_vector, last.query.top_k * 2).items

\* the last call was a search answered from the HNSW graph
SearchedGraph ==
    /\ Returned("search") /\ ~ last.full_scan
    /\ vector_count > 0
    /\ hnsw_index.node_count > 0 /\ hnsw_index.entry_point # UINT32_MAX

\* C26: the HNSW search returns the top_k highest-scoring candidates of the
\* level-0 beam: a candidate left out scores no higher than any one returned
C26_ResultsAreBestOfBeam ==
    SearchedGraph =>
        \A i \in 1..Len(LastBeam) :
            hnsw_index.nodes[LastBeam[i].node_id].id
                    \notin {UnfilteredResults[j].id : j \in 1..Len(UnfilteredResults)} =>
                \A j \in 1..Len(UnfilteredResults) :
                    LastBeam[i].distance <= UnfilteredResults[j].similarity

\* the queue carried from level L down to level L - 1 for the last query
CarriedFrom(L) ==
    DescendLevels(hnsw_index, last.query.query_vector,
        EntryQueue(hnsw_index, last.query.query_vector, last.query.top_k * 2),
        hnsw_index.max_level, L - 1).items

\* the score of a node of the graph for the last query
NodeScore(n) ==
    hnsw_calculate_similarity(last.query.query_vector,
        hnsw_index.nodes[n].vector_data, hnsw_index.dimension,
        hnsw_index.similarity_type)

\* C27: the walk at each level L >= 1 stops only where no neighbor improves: the
\* node carried down to level L - 1 has no neighbor at level L that scores
\* strictly higher than it does
C27_WalkStopsAtLocalBest ==
    SearchedGraph =>
        \A L \in 1..hnsw_index.max_level :
            \A i \in 1..Len(CarriedFrom(L)) :
                \A n \in {c \in 0..(hnsw_index.node_count - 1) :
                            /\ hnsw_index.nodes[c] # NULL
                            /\ \E k \in 1..Len(ConnectionsAt(
                                   hnsw_index.nodes[CarriedFrom(L)[i].node_id], L)) :
                                  ConnectionsAt(
                                   hnsw_index.nodes[CarriedFrom(L)[i].node_id], L)[k] = c} :
                    NodeScore(n) <= NodeScore(CarriedFrom(L)[i].node_id)

--------------------------------------------------------------------------
(* The graph of the HNSW index *)

LiveSlots == {i \in 0..(hnsw_index.node_count - 1) : hnsw_index.nodes[i] # NULL}

\* the edges (from, level, to) stored in the live nodes
StoredEdges ==
    {e \in [from : LiveSlots, level : 0..HNSW_MAX_LEVEL, to : 0..MaxNodes] :
        /\ e.level <= hnsw_index.nodes[e.from].level
        /\ \E k \in 1..Len(hnsw_index.nodes[e.from].connections[e.level]) :
              hnsw_index.nodes[e.from].connections[e.level][k] = e.to}

\* the levels at which the node in slot n of index holds edges
EdgeLevels(index, n) ==
    {l \in 0..index.nodes[n].level : index.nodes[n].connections[l] # << >>}

\* C28: after any adds and removes that returned, every edge stored at level
\* L of a node points to a slot that holds a node, both ends of the edge have
\* level >= L, and an add creates the edges of its node only at levels from
\* min(its level, the max_level it found) down to 0.
C28_EdgesAreSound ==
    /\ [](~ Crashed =>
            \A e \in StoredEdges :
               /\ e.to \in LiveSlots
               /\ hnsw_index.nodes[e.from].level >= e.level
               /\ hnsw_index.nodes[e.to].level >= e.level)
    /\ [][\A vector \in BaseData, level \in Levels :
            AddVector(vector, level) =>
               \A l \in EdgeLevels(hnsw_index', hnsw_index.node_count) :
                  l <= Min(level, hnsw_index.max_level)]_vars

\* C29: whenever the index holds a node, entry_point is a slot holding a node
\* whose level is max_level, and no node has a level above max_level; after
\* every add and every remove that returned.
C29_EntryPointIsTop ==
    (~ Crashed /\ LiveSlots # {}) =>
        /\ hnsw_index.entry_point \in LiveSlots
        /\ hnsw_index.nodes[hnsw_index.entry_point].level = hnsw_index.max_level
        /\ \A i \in LiveSlots : hnsw_index.nodes[i].level <= hnsw_index.max_level

\* a remove elected the entry point: an older node of the same level is live
C29_Witness ==
    /\ last.op = "remove" /\ last.rc = CVECTOR_SUCCESS
    /\ hnsw_index.entry_point \in LiveSlots
    /\ hnsw_index.max_level > 0
    /\ \E j \in LiveSlots :
          /\ j < hnsw_index.entry_point
          /\ hnsw_index.nodes[j].level = hnsw_index.max_level

\* C30: an add that fails after its node was placed leaves the index as it
\* was: node_count, entry_point and max_level are the same and no node keeps
\* an edge to the slot of the discarded node.
C30_FailedAddLeavesNoTrace ==
    [][(\E vector \in BaseData, level \in Levels, fail_level \in Levels :
            AddVectorFails(vector, level, fail_level)) /\ ~ Crashed' =>
          /\ last'.rc # CVECTOR_SUCCESS
          /\ hnsw_index'.node_count = hnsw_index.node_count
          /\ hnsw_index'.entry_point = hnsw_index.entry_point
          /\ hnsw_index'.max_level = hnsw_index.max_level
          /\ hnsw_index' = hnsw_index
          /\ \A i \in 0..(hnsw_index'.node_count - 1) :
                hnsw_index'.nodes[i] # NULL =>
                   \A l \in 0..hnsw_index'.nodes[i].level :
                      \A k \in 1..Len(hnsw_index'.nodes[i].connections[l]) :
                         hnsw_index'.nodes[i].connections[l][k]
                            # hnsw_index.node_count]_vars

--------------------------------------------------------------------------
(* The key index and the HNSW index side by side *)

\* the ids the key index holds a live entry for
KeyIds == {id \in Ids : cvector_hash_find(hash_table, id) # 0}

TopSlots(index) ==
    LET live == {i \in 0..(index.node_count - 1) : index.nodes[i] # NULL}
    IN  {i \in live : \A j \in live : index.nodes[j].level <= index.nodes[i].level}

\* C32: when the removed node was the entry point and other nodes remain, the
\* new entry point is the remaining node of the largest level, the one of the
\* smallest index among several, and max_level is that level.
C32_ElectsSmallestTopNode ==
    [][\A id \in 1..MaxNodes :
          (/\ RemoveVector(id)
           /\ last'.rc = CVECTOR_SUCCESS
           /\ hnsw_index.entry_point = FindNodeById(hnsw_index, id)
           /\ TopSlots(hnsw_index') # {}) =>
             /\ hnsw_index'.entry_point \in TopSlots(hnsw_index')
             /\ \A i \in TopSlots(hnsw_index') : hnsw_index'.entry_point <= i
             /\ hnsw_index'.max_level
                   = hnsw_index'.nodes[hnsw_index'.entry_point].level]_vars

\* C33: after any adds and removes that returned, whenever node a lists node
\* b as a neighbor at level L, node b lists node a as a neighbor at level L.
C33_EdgesAreMutual ==
    ~ Crashed =>
        \A e \in StoredEdges :
            e.to \in LiveSlots =>
                [from |-> e.to, level |-> e.level, to |-> e.from] \in StoredEdges

--------------------------------------------------------------------------
(* The corruption flag of the HNSW index *)

\* C34: while the flag is set, every add and every remove returns an error
\* and leaves the graph as it was.
C34_FlagRefusesMutations ==
    [][(/\ hnsw_index.is_corrupted
        /\ \/ \E vector \in BaseData, level \in Levels : CheckedAdd(vector, level)
           \/ \E id \in 1..MaxNodes : RemoveVector(id)) =>
          /\ last'.rc # CVECTOR_SUCCESS
          /\ hnsw_index' = hnsw_index]_vars

\* C35: a repair of an index whose flag is set ends with the flag cleared, no
\* edge to a vacant or out-of-range slot, and an entry point that is a node of
\* the largest level, or undefined when no node remains.
C35_RepairRestores ==
    [][(hnsw_index.is_corrupted /\ Repair) =>
          /\ ~ hnsw_index'.is_corrupted
          /\ InvalidEdges(hnsw_index') = {}
          /\ IF TopSlots(hnsw_index') = {}
             THEN hnsw_index'.entry_point = UINT32_MAX
             ELSE hnsw_index'.entry_point \in TopSlots(hnsw_index')]_vars

\* C36: on a log whose last record was cut short, the store opens and every
\* whole record without a tombstone can be fetched by its id with the data
\* written; this holds for the records written before and after that open, and
\* across a further close and reopen
C36_TornTailIsAbsent ==
    is_open =>
        \A i \in 1..Len(data_file.records) :
            LET record == data_file.records[i]
            IN  (~ Torn(record) /\ record.is_deleted = 0 /\ record.id # 0) =>
                    cvector_get(record.id) =
                        [rc |-> CVECTOR_SUCCESS,
                         vector |-> [id |-> record.id, dimension |-> record.dimension,
                                     data |-> record.data]]

\* C37: a search that takes the read lock of the search lock releases it before
\* it returns, on every return path: while no search is in progress no read
\* lock is held
C37_SearchReleasesLock == AllIdle => search_lock.readers = 0

\* C38: insert, get and delete accept the same ids: every id whose insert
\* succeeded (id 0 included) and that was not deleted since is returned by get
\* with its vector and is accepted by delete
C38_SameIdsAccepted ==
    is_open =>
        \A id \in Ids :
            inserted[id] # NoData =>
                /\ cvector_get(id).rc = CVECTOR_SUCCESS
                /\ cvector_get(id).vector.data = inserted[id]
                /\ DeleteValidation(id) = CVECTOR_SUCCESS

\* the entries of the key index that carry no tombstone
LiveEntries ==
    {<<b, i>> \in Buckets \X (1..(MaxRecords + 1)) :
        i <= Len(hash_table[b]) /\ ~ hash_table[b][i].is_deleted}

\* C39: in every state of an open store the live-count is the number of
\* key-index entries without a tombstone, and it has not wrapped below zero
C39_LiveCountIsLiveEntries ==
    is_open => /\ vector_count = Cardinality(LiveEntries)
               /\ vector_count # SIZE_MAX

\* the positions of the entries of this id without a tombstone, in its chain
LivePositions(id) ==
    {i \in 1..Len(hash_table[cvector_hash(id)]) :
        /\ hash_table[cvector_hash(id)][i].id = id
        /\ ~ hash_table[cvector_hash(id)][i].is_deleted}

\* C40: the lookup of the key index finds every live id, however many entries
\* precede it in the chain of its bucket: its get succeeds and a second insert
\* of it is rejected, so the id is never live twice
C40_LookupFindsLiveIds ==
    \A id \in CollidingIds :
        /\ LivePositions(id) # {} => cvector_hash_find(hash_table, id) # 0
        /\ Cardinality(LivePositions(id)) <= 1

============================================================================
